---- MODULE Spec2Model ----
(***************************************************************************)
(* edge-s: per-request state isolation for a server-rendered application   *)
(* and the transfer of that state to the client.                           *)
(*                                                                         *)
(* The module holds these specifications:                                  *)
(*   Spec       requests handled concurrently by edgesHandle: the request  *)
(*              context, the provider cache and the state cells;           *)
(*   SpecStore  the providers and cells of one request;                    *)
(*   SpecShare  two requests whose cells start from one module-level       *)
(*              object;                                                    *)
(*   SpecHandle one request's response post-processing (JSON augmentation);*)
(*   SpecEntry  how a request enters edgesHandle, and JSON bodies of every *)
(*              shape;                                                     *)
(*   SpecCache  the provider cache of the page and clearCache;             *)
(*   SpecFetch  the patched window.fetch and the text of its responses;    *)
(*   SpecReader the patched reader of a streamed response body;            *)
(*   SpecCodec  stateSerialize and the client's decoding of its entries.   *)
(* JavaScript values are tagged pairs, texts are sequences of one-         *)
(* character strings, and JSON.stringify / JSON.parse / base64 / UTF-8 are *)
(* computed character by character.                                        *)
(***************************************************************************)
EXTENDS Integers, Sequences, FiniteSets, TLC

(***************************************************************************)
(* JavaScript values                                                       *)
(***************************************************************************)
Undef == <<"undef", <<>>>>
Null == <<"null", <<>>>>
\* an array index without an own property (left by a delete)
Hole == <<"hole", <<>>>>
Bool(b) == <<"bool", b>>
Num(n) == <<"num", n>>
Str(s) == <<"str", s>>
\* an object: its own properties in insertion order, each <<key, value>>
Obj(pairs) == <<"obj", pairs>>
Arr(elems) == <<"arr", elems>>

\* a value is <<tag, payload>>: the tag decides every comparison first
Tag(x) == x[1]
Val(x) == x[2]

IsObj(x) == Tag(x) = "obj"
IsArr(x) == Tag(x) = "arr"

\* key in obj
HasOwn(o, k) == \E i \in 1..Len(Val(o)) : Val(o)[i][1] = k
\* obj[key]
GetProp(o, k) ==
  IF HasOwn(o, k)
  THEN Val(o)[CHOOSE i \in 1..Len(Val(o)) : Val(o)[i][1] = k][2]
  ELSE Undef
\* obj[key] = value: an existing key keeps its place, a new key is appended
SetProp(o, k, x) ==
  IF HasOwn(o, k)
  THEN Obj([i \in 1..Len(Val(o)) |-> IF Val(o)[i][1] = k THEN <<k, x>> ELSE Val(o)[i]])
  ELSE Obj(Append(Val(o), <<k, x>>))

(***************************************************************************)
(* Texts                                                                   *)
(***************************************************************************)
RECURSIVE Flatten(_)
\* the concatenation of a sequence of texts (by halves: the depth is a logarithm)
Flatten(ss) ==
  IF Len(ss) = 0 THEN <<>>
  ELSE IF Len(ss) = 1 THEN ss[1]
  ELSE LET h == Len(ss) \div 2
       IN Flatten(SubSeq(ss, 1, h)) \o Flatten(SubSeq(ss, h + 1, Len(ss)))

\* parts.join(sep)
Join(parts, sep) ==
  Flatten([i \in 1..Len(parts) |-> IF i = 1 THEN parts[i] ELSE sep \o parts[i]])

DQ == "\""
SQ == "'"
BS == "\\"

DigitChars == <<"0", "1", "2", "3", "4", "5", "6", "7", "8", "9">>
RECURSIVE NumText(_)
\* String(n) for a natural number
NumText(n) ==
  IF n < 10 THEN <<DigitChars[n + 1]>>
  ELSE NumText(n \div 10) \o <<DigitChars[(n % 10) + 1]>>

UNDEFINED_MARKER ==
  <<"_", "_", "E", "D", "G", "E", "S", "_", "U", "N", "D", "E", "F", "I", "N", "E", "D", "_", "_">>
NULL_MARKER ==
  <<"_", "_", "E", "D", "G", "E", "S", "_", "N", "U", "L", "L", "_", "_">>

(***************************************************************************)
(* JSON.stringify                                                          *)
(***************************************************************************)
\* the text "undefined" of a call that produces no text
NoText == <<>>

MarkerObj(marker) == Obj(<< <<marker, Bool(TRUE)>> >>)

\* State.svelte.ts safeReplacer
safeReplacer(key, value) ==
  IF value = Undef THEN MarkerObj(UNDEFINED_MARKER)
  ELSE IF value = Null THEN MarkerObj(NULL_MARKER)
  ELSE IF Tag(value) \in {"func", "symbol"} THEN Undef
  ELSE value

\* the server hook's own safeReplacer
handleSafeReplacer(key, value) ==
  IF value = Undef THEN MarkerObj(UNDEFINED_MARKER)
  ELSE IF value = Null THEN MarkerObj(NULL_MARKER)
  ELSE value

ApplyReplacer(rep, key, value) ==
  CASE rep = "state" -> safeReplacer(key, value)
    [] rep = "handle" -> handleSafeReplacer(key, value)
    [] OTHER -> value

\* QuoteJSONString, one character
EscapeJSONChar(c) ==
  IF c = DQ THEN <<BS, DQ>>
  ELSE IF c = BS THEN <<BS, BS>>
  ELSE <<c>>

QuoteJSONString(s) ==
  <<DQ>> \o Flatten([i \in 1..Len(s) |-> EscapeJSONChar(s[i])]) \o <<DQ>>

NonEmpty(x) == x # NoText

RECURSIVE SerializeJSONProperty(_, _, _)
\* the text of holder[key] under replacer rep, NoText when it has none
SerializeJSONProperty(key, held, rep) ==
  LET value == ApplyReplacer(rep, key, IF held = Hole THEN Undef ELSE held)
  IN CASE Tag(value) = "null" -> <<"n", "u", "l", "l">>
       [] Tag(value) = "bool" ->
            IF Val(value) THEN <<"t", "r", "u", "e">> ELSE <<"f", "a", "l", "s", "e">>
       [] Tag(value) = "str" -> QuoteJSONString(Val(value))
       [] Tag(value) = "num" -> NumText(Val(value))
       [] Tag(value) = "obj" ->
            LET member(i) ==
                  LET s == SerializeJSONProperty(Val(value)[i][1], Val(value)[i][2], rep)
                  IN IF s = NoText THEN NoText
                     ELSE QuoteJSONString(Val(value)[i][1]) \o <<":">> \o s
                members == SelectSeq([i \in 1..Len(Val(value)) |-> member(i)], NonEmpty)
            IN <<"{">> \o Join(members, <<",">>) \o <<"}">>
       [] Tag(value) = "arr" ->
            LET element(i) ==
                  LET s == SerializeJSONProperty(NumText(i - 1), Val(value)[i], rep)
                  IN IF s = NoText THEN <<"n", "u", "l", "l">> ELSE s
            IN <<"[">> \o Join([i \in 1..Len(Val(value)) |-> element(i)], <<",">>) \o <<"]">>
       [] OTHER -> NoText

\* JSON.stringify(value, replacer)
JSONStringify(value, rep) == SerializeJSONProperty(<<>>, value, rep)

(***************************************************************************)
(* String literals: JSON's "..." and JavaScript's '...'                    *)
(***************************************************************************)
Max(S) == CHOOSE m \in S : \A x \in S : x <= m
Min(S) == CHOOSE m \in S : \A x \in S : m <= x

\* how many backslashes stand immediately before position i, not below lo
BackslashRun(s, lo, i) ==
  IF i - 1 < lo \/ s[i - 1] # BS THEN 0
  ELSE LET stops == {k \in lo..(i - 1) : s[k] # BS}
       IN IF stops = {} THEN i - lo ELSE i - 1 - Max(stops)

\* the position of the quote closing the literal opened at p, 0 when there is none
ClosingQuote(s, p, q) ==
  LET cands == {j \in (p + 1)..Len(s) : s[j] = q /\ BackslashRun(s, p + 1, j) % 2 = 0}
  IN IF cands = {} THEN 0 ELSE Min(cands)

\* the characters a literal's source text c denotes
Unescape(c) ==
  LET IsStart(i) == BackslashRun(c, 1, i) % 2 = 0
      starts == SelectSeq([i \in 1..Len(c) |-> i], IsStart)
  IN [k \in 1..Len(starts) |->
        IF c[starts[k]] = BS /\ starts[k] < Len(c) THEN c[starts[k] + 1] ELSE c[starts[k]]]

\* JSON allows only these after a backslash (of the characters texts here hold)
JsonEscapesOk(c) ==
  \A i \in 1..Len(c) :
    (c[i] = BS /\ BackslashRun(c, 1, i) % 2 = 0) =>
      (i < Len(c) /\ c[i + 1] \in {DQ, BS, "/"})

(***************************************************************************)
(* JSON.parse                                                              *)
(***************************************************************************)
WS == {" "}
ParseFail == [ok |-> FALSE, val |-> Undef, pos |-> 0]
Parsed(x, p) == [ok |-> TRUE, val |-> x, pos |-> p]

SkipWs(s, p) ==
  IF p > Len(s) \/ s[p] \notin WS THEN p
  ELSE LET rest == {q \in p..Len(s) : s[q] \notin WS}
       IN IF rest = {} THEN Len(s) + 1 ELSE Min(rest)

Matches(s, p, word) ==
  /\ p + Len(word) - 1 <= Len(s)
  /\ SubSeq(s, p, p + Len(word) - 1) = word

DigitOf(c) == CHOOSE d \in 0..9 : DigitChars[d + 1] = c
IsDigit(c) == \E d \in 0..9 : DigitChars[d + 1] = c

RECURSIVE DigitsValue(_)
DigitsValue(ds) ==
  IF Len(ds) = 0 THEN 0
  ELSE 10 * DigitsValue(SubSeq(ds, 1, Len(ds) - 1)) + DigitOf(ds[Len(ds)])

ParseString(s, p) ==
  LET j == ClosingQuote(s, p, DQ)
  IN IF j = 0 \/ ~JsonEscapesOk(SubSeq(s, p + 1, j - 1)) THEN ParseFail
     ELSE Parsed(Str(Unescape(SubSeq(s, p + 1, j - 1))), j + 1)

ParseNumber(s, p) ==
  LET stops == {q \in p..Len(s) : ~IsDigit(s[q])}
      e == IF stops = {} THEN Len(s) + 1 ELSE Min(stops)
  IN IF s[p] = "0" /\ e > p + 1 THEN ParseFail
     ELSE Parsed(Num(DigitsValue(SubSeq(s, p, e - 1))), e)

RECURSIVE ParseValue(_, _), ParseMembers(_, _, _), ParseElements(_, _, _)
\* the JSON value starting at p (white space skipped by the caller)
ParseValue(s, p) ==
  IF p > Len(s) THEN ParseFail
  ELSE CASE s[p] = "{" ->
              LET q == SkipWs(s, p + 1)
              IN IF q <= Len(s) /\ s[q] = "}" THEN Parsed(Obj(<<>>), q + 1)
                 ELSE ParseMembers(s, q, Obj(<<>>))
         [] s[p] = "[" ->
              LET q == SkipWs(s, p + 1)
              IN IF q <= Len(s) /\ s[q] = "]" THEN Parsed(Arr(<<>>), q + 1)
                 ELSE ParseElements(s, q, <<>>)
         [] s[p] = DQ -> ParseString(s, p)
         [] IsDigit(s[p]) -> ParseNumber(s, p)
         [] Matches(s, p, <<"t", "r", "u", "e">>) -> Parsed(Bool(TRUE), p + 4)
         [] Matches(s, p, <<"f", "a", "l", "s", "e">>) -> Parsed(Bool(FALSE), p + 5)
         [] Matches(s, p, <<"n", "u", "l", "l">>) -> Parsed(Null, p + 4)
         [] OTHER -> ParseFail

\* "key": value members from p on, added to the object acc
ParseMembers(s, p, acc) ==
  IF p > Len(s) \/ s[p] # DQ THEN ParseFail
  ELSE LET k == ParseString(s, p)
           c == SkipWs(s, k.pos)
       IN IF ~k.ok \/ c > Len(s) \/ s[c] # ":" THEN ParseFail
          ELSE LET x == ParseValue(s, SkipWs(s, c + 1))
                   e == SkipWs(s, x.pos)
               IN IF ~x.ok \/ e > Len(s) THEN ParseFail
                  ELSE IF s[e] = "}" THEN Parsed(SetProp(acc, Val(k.val), x.val), e + 1)
                  ELSE IF s[e] = ","
                       THEN ParseMembers(s, SkipWs(s, e + 1), SetProp(acc, Val(k.val), x.val))
                  ELSE ParseFail

\* elements from p on, appended to acc
ParseElements(s, p, acc) ==
  LET x == ParseValue(s, p)
      e == SkipWs(s, x.pos)
  IN IF ~x.ok \/ e > Len(s) THEN ParseFail
     ELSE IF s[e] = "]" THEN Parsed(Arr(Append(acc, x.val)), e + 1)
     ELSE IF s[e] = "," THEN ParseElements(s, SkipWs(s, e + 1), Append(acc, x.val))
     ELSE ParseFail

\* JSON.parse(text) without a reviver: ok is FALSE where it throws SyntaxError
JSONParse(s) ==
  LET r == ParseValue(s, SkipWs(s, 1))
  IN IF r.ok /\ SkipWs(s, r.pos) = Len(s) + 1 THEN r ELSE ParseFail


(***************************************************************************)
(* The reviver and JSON.parse(text, reviver)                               *)
(***************************************************************************)
\* NavigationSync safeReviver; window.__EDGES_REVIVER__ is the same function
safeReviver(key, value) ==
  IF IsObj(value) /\ HasOwn(value, UNDEFINED_MARKER) THEN Undef
  ELSE IF IsObj(value) /\ HasOwn(value, NULL_MARKER) THEN Null
  ELSE value

IsKept(pair) == pair[2] # Undef

RECURSIVE InternalizeJSONProperty(_, _)
\* JSON.parse's walk: the reviver is applied to the properties of val, then to
\* val; a property the reviver maps to undefined is deleted from its holder
InternalizeJSONProperty(name, val) ==
  LET walked ==
        CASE IsArr(val) ->
               Arr([i \in 1..Len(Val(val)) |->
                      LET e == InternalizeJSONProperty(NumText(i - 1), Val(val)[i])
                      IN IF e = Undef THEN Hole ELSE e])
          [] IsObj(val) ->
               Obj(SelectSeq(
                     [i \in 1..Len(Val(val)) |->
                        <<Val(val)[i][1], InternalizeJSONProperty(Val(val)[i][1], Val(val)[i][2])>>],
                     IsKept))
          [] OTHER -> val
  IN safeReviver(name, walked)

\* JSON.parse(text, safeReviver)
JSONParseRevived(s) ==
  LET r == JSONParse(s)
  IN IF r.ok THEN Parsed(InternalizeJSONProperty(<<>>, r.val), r.pos) ELSE ParseFail


(***************************************************************************)
(* Maps (insertion-ordered, as a JavaScript Map iterates)                  *)
(***************************************************************************)
MapHas(m, k) == \E i \in 1..Len(m) : m[i][1] = k
MapGet(m, k) ==
  IF MapHas(m, k) THEN m[CHOOSE i \in 1..Len(m) : m[i][1] = k][2] ELSE Undef
MapSet(m, k, x) ==
  IF MapHas(m, k)
  THEN [i \in 1..Len(m) |-> IF m[i][1] = k THEN <<k, x>> ELSE m[i]]
  ELSE Append(m, <<k, x>>)
MapKeys(m) == {m[i][1] : i \in 1..Len(m)}

\* a ?? d
Nullish(a, d) == IF a = Undef \/ a = Null THEN d ELSE a

(***************************************************************************)
(* Character codes, UTF-8 and base64                                       *)
(***************************************************************************)
\* the printable ASCII characters, code 32 first (the grave accent by its code point)
Ascii ==
  <<
    " ", "!", "\"", "#", "$", "%", "&", "'", "(", ")", "*", "+", ",", "-", ".", "/",
    "0", "1", "2", "3", "4", "5", "6", "7", "8", "9", ":", ";", "<", "=", ">", "?",
    "@", "A", "B", "C", "D", "E", "F", "G", "H", "I", "J", "K", "L", "M", "N", "O",
    "P", "Q", "R", "S", "T", "U", "V", "W", "X", "Y", "Z", "[", "\\", "]", "^", "_",
    "U+0060", "a", "b", "c", "d", "e", "f", "g", "h", "i", "j", "k", "l", "m", "n", "o",
    "p", "q", "r", "s", "t", "u", "v", "w", "x", "y", "z", "{", "|", "}", "~"
  >>

\* a character outside ASCII: U+00E9, two bytes in UTF-8
EAcute == "U+00E9"

CharCode(c) ==
  IF c = EAcute THEN 233 ELSE 31 + (CHOOSE i \in 1..Len(Ascii) : Ascii[i] = c)
FromCharCode(n) == IF n = 233 THEN EAcute ELSE Ascii[n - 31]

\* new TextEncoder().encode(s): the UTF-8 bytes of s
TextEncode(s) ==
  Flatten([i \in 1..Len(s) |->
             LET c == CharCode(s[i])
             IN IF c < 128 THEN <<c>> ELSE <<192 + (c \div 64), 128 + (c % 64)>>])

IsLeadByte(b) == b < 128 \/ b >= 192

\* new TextDecoder().decode(bytes) of well-formed UTF-8
TextDecode(bytes) ==
  LET IsLead(i) == IsLeadByte(bytes[i])
      leads == SelectSeq([i \in 1..Len(bytes) |-> i], IsLead)
  IN [k \in 1..Len(leads) |->
        LET b == bytes[leads[k]]
        IN IF b < 128 THEN FromCharCode(b)
           ELSE FromCharCode((b - 192) * 64 + (bytes[leads[k] + 1] - 128))]

B64Chars ==
  <<
    "A", "B", "C", "D", "E", "F", "G", "H", "I", "J", "K", "L", "M", "N", "O", "P",
    "Q", "R", "S", "T", "U", "V", "W", "X", "Y", "Z", "a", "b", "c", "d", "e", "f",
    "g", "h", "i", "j", "k", "l", "m", "n", "o", "p", "q", "r", "s", "t", "u", "v",
    "w", "x", "y", "z", "0", "1", "2", "3", "4", "5", "6", "7", "8", "9", "+", "/"
  >>

B64Pad == "="

ByteAt(bytes, i) == IF i <= Len(bytes) THEN bytes[i] ELSE 0

\* btoa of the binary string whose character codes are bytes
btoa(bytes) ==
  LET n == Len(bytes)
      groups == (n + 2) \div 3
  IN [i \in 1..(4 * groups) |->
        LET g == (i - 1) \div 4
            j == (i - 1) % 4
            triple == ByteAt(bytes, 3 * g + 1) * 65536 + ByteAt(bytes, 3 * g + 2) * 256
                        + ByteAt(bytes, 3 * g + 3)
            sextet == CASE j = 0 -> triple \div 262144
                        [] j = 1 -> (triple \div 4096) % 64
                        [] j = 2 -> (triple \div 64) % 64
                        [] OTHER -> triple % 64
        IN IF (j = 2 /\ 3 * g + 2 > n) \/ (j = 3 /\ 3 * g + 3 > n) THEN B64Pad
           ELSE B64Chars[sextet + 1]]

IsB64Char(c) == \E i \in 1..64 : B64Chars[i] = c
SextetAt(text, i) ==
  IF i <= Len(text) /\ IsB64Char(text[i])
  THEN (CHOOSE k \in 1..64 : B64Chars[k] = text[i]) - 1
  ELSE 0

\* atob(text): the character codes of the binary string
atob(text) ==
  LET IsData(c) == c # B64Pad
      m == Len(SelectSeq(text, IsData))
      n == (m * 6) \div 8
  IN [k \in 1..n |->
        LET g == (k - 1) \div 3
            j == (k - 1) % 3
            triple == SextetAt(text, 4 * g + 1) * 262144 + SextetAt(text, 4 * g + 2) * 4096
                        + SextetAt(text, 4 * g + 3) * 64 + SextetAt(text, 4 * g + 4)
        IN CASE j = 0 -> triple \div 65536
             [] j = 1 -> (triple \div 256) % 256
             [] OTHER -> triple % 256]


(***************************************************************************)
(* stateSerialize: the script block of a request's state map               *)
(*                                                                         *)
(* The fixed pieces of the template are one element each; what is          *)
(* interpolated into it (a key, an encoded value) is there character by    *)
(* character.                                                              *)
(***************************************************************************)
SCRIPT_OPEN == "<script>"
SCRIPT_CLOSE == "</script>"
REVIVER_CODE == "window.__EDGES_REVIVER__=function(k,v){...};"
NEW_MAP == "window.__SAFE_SSR_STATE__=new Map();"
RAW_SET == "window.__SAFE_SSR_STATE__.set("
RAW_PARSE == ",JSON.parse("
RAW_END == ",window.__EDGES_REVIVER__))"
B64_ATOB == "{const binary=atob("
B64_SET == ");...const decoded=new TextDecoder().decode(bytes);window.__SAFE_SSR_STATE__.set("
B64_END == ",JSON.parse(decoded,window.__EDGES_REVIVER__));}"

DEFAULT_THRESHOLD == 1024

\* serialized.replace(/[\\']/g, (ch) => '\\' + ch)
EscapeLiteral(text) ==
  Flatten([i \in 1..Len(text) |->
             IF text[i] = BS \/ text[i] = SQ THEN <<BS, text[i]>> ELSE <<text[i]>>])

\* the comparison as >= instead of >
ShouldCompressEntryAtThreshold(serialized, options) ==
  /\ Val(Nullish(options.compress, Bool(FALSE)))
  /\ Len(serialized) >= Val(Nullish(options.threshold, Num(DEFAULT_THRESHOLD)))

\* shouldCompress && serialized.length > threshold
ShouldCompressEntry(serialized, options) ==
  /\ Val(Nullish(options.compress, Bool(FALSE)))
  /\ Len(serialized) > Val(Nullish(options.threshold, Num(DEFAULT_THRESHOLD)))

\* the statement pushed for one entry of the map
SerializeEntry(key, value, options) ==
  LET serialized == JSONStringify(value, "state")
  IN IF ShouldCompressEntry(serialized, options)
     THEN <<B64_ATOB, SQ>> \o btoa(TextEncode(serialized)) \o <<SQ, B64_SET, SQ>>
            \o key \o <<SQ, B64_END>>
     ELSE <<RAW_SET, SQ>> \o key \o <<SQ, RAW_PARSE, SQ>>
            \o EscapeLiteral(serialized) \o <<SQ, RAW_END>>

\* stateSerialize(options) with map the state map of the calling request
stateSerialize(map, options) ==
  IF Len(map) = 0 THEN <<>>
  ELSE <<SCRIPT_OPEN, REVIVER_CODE, NEW_MAP>>
         \o Join([i \in 1..Len(map) |-> SerializeEntry(map[i][1], map[i][2], options)],
                 <<";">>)
         \o <<SCRIPT_CLOSE>>

(***************************************************************************)
(* The browser running an emitted script block                             *)
(***************************************************************************)
NoLiteral == [ok |-> FALSE, src |-> <<>>, next |-> 0]
\* the '...' literal opening at p
ScriptLiteral(s, p) ==
  IF p > Len(s) \/ s[p] # SQ THEN NoLiteral
  ELSE LET j == ClosingQuote(s, p, SQ)
       IN IF j = 0 THEN NoLiteral
          ELSE [ok |-> TRUE, src |-> SubSeq(s, p + 1, j - 1), next |-> j + 1]

NoStatement == [ok |-> FALSE, kind |-> "", key |-> <<>>, arg |-> <<>>, next |-> 0]
At(s, p) == IF p >= 1 /\ p <= Len(s) THEN s[p] ELSE ""

\* the statement of the body starting at p, when it has one of the two shapes
ParseStatement(s, p) ==
  CASE At(s, p) = RAW_SET ->
         LET k == ScriptLiteral(s, p + 1)
             a == ScriptLiteral(s, k.next + 1)
         IN IF k.ok /\ At(s, k.next) = RAW_PARSE /\ a.ok /\ At(s, a.next) = RAW_END
            THEN [ok |-> TRUE, kind |-> "raw", key |-> Unescape(k.src),
                  arg |-> Unescape(a.src), next |-> a.next + 1]
            ELSE NoStatement
    [] At(s, p) = B64_ATOB ->
         LET a == ScriptLiteral(s, p + 1)
             k == ScriptLiteral(s, a.next + 1)
         IN IF a.ok /\ At(s, a.next) = B64_SET /\ k.ok /\ At(s, k.next) = B64_END
            THEN [ok |-> TRUE, kind |-> "b64", key |-> Unescape(k.src),
                  arg |-> Unescape(a.src), next |-> k.next + 1]
            ELSE NoStatement
    [] OTHER -> NoStatement

RECURSIVE ParseStatements(_, _, _)
\* the statements from p on, separated by semicolons; ok is FALSE on a syntax error
ParseStatements(s, p, acc) ==
  IF p > Len(s) THEN [ok |-> TRUE, sts |-> acc]
  ELSE LET st == ParseStatement(s, p)
       IN IF ~st.ok THEN [ok |-> FALSE, sts |-> <<>>]
          ELSE IF st.next > Len(s) THEN [ok |-> TRUE, sts |-> Append(acc, st)]
          ELSE IF s[st.next] = ";" THEN ParseStatements(s, st.next + 1, Append(acc, st))
          ELSE [ok |-> FALSE, sts |-> <<>>]

\* the value a statement stores: JSON.parse(..., window.__EDGES_REVIVER__)
StatementValue(st) ==
  IF st.kind = "b64" THEN JSONParseRevived(TextDecode(atob(st.arg)))
  ELSE JSONParseRevived(st.arg)

RECURSIVE RunStatements(_, _, _)
\* the statements run in order; the first that throws ends the script
RunStatements(sts, i, table) ==
  IF i > Len(sts) THEN [threw |-> FALSE, map |-> table]
  ELSE LET x == StatementValue(sts[i])
       IN IF ~x.ok THEN [threw |-> TRUE, map |-> table]
          ELSE RunStatements(sts, i + 1, MapSet(table, sts[i].key, x.val))

\* where the script element ends: the first </script after its opening tag
ScriptEnd(text) ==
  LET ends == {i \in 2..Len(text) :
                 \/ text[i] = SCRIPT_CLOSE
                 \/ /\ text[i] = "<"
                    /\ Matches(text, i, <<"<", "/", "s", "c", "r", "i", "p", "t">>)}
  IN IF ends = {} THEN Len(text) + 1 ELSE Min(ends)

\* window.__SAFE_SSR_STATE__: undefined until a script creates it
NoTable == [def |-> FALSE, map |-> <<>>]
Table(m) == [def |-> TRUE, map |-> m]

\* the statements of an emitted block, as the browser's parser reads them
ScriptStatements(text) ==
  IF Len(text) = 0 \/ text[1] # SCRIPT_OPEN THEN [ok |-> FALSE, sts |-> <<>>]
  ELSE LET body == SubSeq(text, 2, ScriptEnd(text) - 1)
       IN IF Len(body) < 2 \/ body[1] # REVIVER_CODE \/ body[2] # NEW_MAP
          THEN [ok |-> FALSE, sts |-> <<>>]
          ELSE ParseStatements(body, 3, <<>>)

\* the page's table after the browser met the script block: a block with a
\* syntax error runs nothing, a statement that throws ends it
ExecScript(text, table) ==
  LET parsed == ScriptStatements(text)
  IN IF ~parsed.ok THEN table
     ELSE Table(RunStatements(parsed.sts, 1, <<>>).map)

(***************************************************************************)
(* State keys                                                              *)
(***************************************************************************)
\* a key made of the kind and the counter alone
StateKeyWithoutName(name, kind, n) == kind \o <<":", ":">> \o NumText(n)

\* `${key}::state::${stateCounter++}` and `${key}::rawstate::${stateCounter++}`
StateKey(name, kind, n) == name \o <<":", ":">> \o kind \o <<":", ":">> \o NumText(n)

KIND_STATE == <<"s", "t", "a", "t", "e">>
KIND_RAWSTATE == <<"r", "a", "w", "s", "t", "a", "t", "e">>

\* the text of the key for a cell of kind
KindText(kind) == IF kind = "state" THEN KIND_STATE ELSE KIND_RAWSTATE

(***************************************************************************)
(* The state                                                               *)
(***************************************************************************)
\* the state of the server
VARIABLES
  currentGetter,  \* RequestContextManager._currentGetter: 0, or the request whose
                  \* edgesHandle installed the resolver now in place
  storage,        \* the AsyncLocalStorage: the store bound to each request's scope
  nextSymbol,     \* the identity the next Symbol('request') gets
  RequestStores,  \* the WeakMap from request symbol to state map
  pc,             \* where each request is: "idle", "callback", "done"
  steps,          \* the steps each request's code has taken
  held,           \* the instances the code of each request got from its providers
  seen,           \* the context the last RequestContext.current() of each request
                  \* returned: its symbol, 0 before any call, -1 when it threw;
                  \* and the resolver that was installed then
  lastRead,       \* the last read of a cell in each request: the key, the value
                  \* returned, the value the request's own code stored last,
                  \* and the values the other requests had stored under the key
  shadow,         \* per request and key, the value its own code stored last
  touched,        \* the symbols of the state maps each request's code used
  runs,           \* per request and provider, how often the factory has run
  returned,       \* per request and provider, the instances its calls returned
  outcome,        \* of the last call made at module level: which call, whether a
                  \* resolver was installed, and "threw" or "cell"
  derivedLog,     \* per request, what each subscribe to the derived cell delivered
  replies         \* per request, the response callback returned and the one
                  \* edgesHandle returned

serverVars ==
  <<currentGetter, storage, nextSymbol, RequestStores, pc, steps, held, seen,
    lastRead, shadow, touched, runs, returned, outcome, derivedLog, replies>>

\* the state of the encoding
VARIABLES
  codecMap,      \* the state map of the request being serialized
  codecOptions,  \* the options stateSerialize was called with
  codecScript,   \* the text stateSerialize returned
  codecWindow,   \* window.__SAFE_SSR_STATE__ of the page that received it
  codecPhase     \* "server", "serialized", "executed"

codecVars == <<codecMap, codecOptions, codecScript, codecWindow, codecPhase>>

\* the objects the application's modules keep at module level, shared by all
\* the requests the process handles
VARIABLES
  heap,          \* the contents of each such object, by its address
  pushed         \* per request, what its own code has pushed onto the list it
                 \* reads from its cell

moduleVars == <<heap, pushed>>

\* how each request entered edgesHandle
VARIABLES
  entered        \* per request: silentChromeDevtools, the path of the URL, how
                 \* often callback was invoked and the symbol of the context it
                 \* was invoked in

entryVars == <<entered>>

\* the functions the code of the requests has passed to subscribe
VARIABLES
  subscriber     \* per request, the function passed to the last subscribe of a
                 \* subscribable cell: the key of the cell, the values the
                 \* function was called with, in order, and how often the
                 \* unsubscribe returned to the request was called

subscriberVars == <<subscriber>>

\* the state of the browser
VARIABLES
  globalClientCache,     \* the provider cache of the page
  clientRuns,            \* per provider, how often its factory has run in the page
  lastClear,             \* the last call of clearCache: which call it was, where
                         \* it ran and its argument
  windowState,           \* window.__SAFE_SSR_STATE__
  stateUpdateCallbacks,  \* the keys with a registered callback, and the kind of
                         \* the cell that registered it
  cellValue,             \* the value of the cell registered under each key
  processed,             \* what processEdgesState was called with, in order
  fetched,               \* the last call of window.fetch and how it ended
  reader,                \* the reader the page's code got from a response body
  clientCalls            \* the calls the code of the page has made

cacheVars == <<globalClientCache, clientRuns, lastClear>>
hydrationVars == <<windowState, stateUpdateCallbacks, cellValue, processed>>
clientVars == <<cacheVars, hydrationVars, fetched, reader, clientCalls>>

\* what the steps of one part leave alone
\* a derived cell made of sources of any kind
VARIABLES
  derivation     \* the last subscribe to it: what each source passed to its
                 \* subscriber while it was being subscribed to, and what the
                 \* function given to subscribe was called with

derivationVars == <<derivation>>

\* the cells of the page
VARIABLES
  replacedCells,  \* the cells whose callback in stateUpdateCallbacks was replaced
                  \* by that of a cell created later for the same key: their key
                  \* and value, in the order they were replaced
  written,        \* the keys of the cells the code of the page has written to
  pageWrites      \* how many writes and deliveries the page has seen

pageVars == <<replacedCells, written, pageWrites>>

\* the keys of the stores made without a name
VARIABLES
  keyCaches,     \* per key cache (0: AutoKeyGenerator's own on the server, Browser:
                 \* its own in the page, n > 0: the one in the data of the context
                 \* with symbol n): cache, factory to key, and counters, base key
                 \* to count
  seenFactories, \* dev.ts seenFactories, of the server (Outside) and of the page
  warnings,      \* the collision warnings written to the console
  keyLog,        \* what generate has returned: key cache, factory, key, whether
                 \* the key was made by this call, and the key computed from the
                 \* factory's identifier
  dev,           \* the build is a development build
  generates      \* how often generate has been called

keyVars == <<keyCaches, seenFactories, warnings, keyLog, dev, generates>>

\* the document of a page
VARIABLES
  document       \* the last call of serialize: html, the state map, the result

documentVars == <<document>>

\* the batch manager of a process
VARIABLES
  browser,        \* environment.ts browser: the process is a page, not the server
  pendingUpdates, \* BatchManager.pendingUpdates: key to update, in insertion order
  scheduled,      \* BatchManager.scheduled
  batchCallbacks, \* BatchManager.batchCallbacks, in insertion order
  microtasks,     \* the flushes handed to queueMicrotask that have not run
  running,        \* the calls of batch whose fn has not returned, innermost last:
                  \* "start" when the call set scheduled, "joined" when it found it
                  \* set, "server" outside the browser
  queuedLog,      \* the calls of queueUpdate: arguments, the number of flushes and
                  \* of running calls of batch at the call, and whether the
                  \* callback was called at once
  applied,        \* the calls of the callbacks of updates: key, value, callback,
                  \* and the flush that made the call (0: queueUpdate itself)
  registered,     \* the calls of onBatchComplete: callback, the number of flushes
                  \* at the call, and the call of batch that set scheduled and
                  \* was running (0: none)
  completed,      \* the calls of the callbacks of onBatchComplete: callback, the
                  \* flush that made the call, how many calls of batch that set
                  \* scheduled had returned, how many update callbacks had run
  finished,       \* per call of batch that set scheduled and has returned: the
                  \* flush it handed to queueMicrotask (0: none)
  flushes,        \* how many flushes have run
  begun           \* how often batch has been called

\* the page chunks of the requests
VARIABLES
  chunks          \* the calls of serialize by the requests' callbacks: request,
                  \* options, the state map at the call, and the block returned

chunkVars == <<chunks>>

batchVars ==
  <<browser, pendingUpdates, scheduled, batchCallbacks, microtasks, running,
    queuedLog, applied, registered, completed, finished, flushes, begun>>

\* what the steps of one part leave alone
restVars == <<derivationVars, pageVars, keyVars, documentVars, batchVars, chunkVars>>
nonPageVars ==
  <<codecVars, serverVars, moduleVars, entryVars, subscriberVars, derivationVars,
    keyVars, documentVars, batchVars, chunkVars>>
nonKeyVars ==
  <<codecVars, serverVars, moduleVars, entryVars, clientVars, subscriberVars,
    derivationVars, pageVars, documentVars, batchVars, chunkVars>>
nonBatchVars ==
  <<codecVars, serverVars, moduleVars, entryVars, clientVars, subscriberVars,
    derivationVars, pageVars, keyVars, documentVars, chunkVars>>
nonServerVars == <<codecVars, moduleVars, entryVars, clientVars, subscriberVars, restVars>>
nonCellVars == <<codecVars, moduleVars, entryVars, clientVars, restVars>>
nonCodecVars == <<serverVars, moduleVars, entryVars, clientVars, subscriberVars, restVars>>
nonClientVars == <<codecVars, serverVars, moduleVars, entryVars, subscriberVars, restVars>>

(***************************************************************************)
(* SpecCodec: a state map is filled, serialized, and the emitted script is *)
(* run by the browser                                                      *)
(***************************************************************************)
\* how deep the values stored in the map nest
MaxDepth == 2

KeyA == <<"a">>
KeyB == <<"b">>
Leaves == {Undef, Null, Num(5), Str(<<"a">>), Str(<<"i", SQ, BS, DQ, EAcute>>)}

RECURSIVE ValuesOfDepth(_)
ValuesOfDepth(d) ==
  IF d = 0 THEN Leaves
  ELSE LET below == ValuesOfDepth(d - 1)
       IN below \cup {Obj(<< <<KeyA, x>> >>) : x \in below}
                \cup {Arr(<<x>>) : x \in below}
                \cup {Obj(<< <<KeyA, x>>, <<KeyB, Num(5)>> >>) : x \in {Undef, Null}}

\* () => ({id: 2, settings: {theme: undefined}})
ScenarioUser ==
  Obj(<< <<<<"i", "d">>, Num(2)>>,
         <<<<"s", "e", "t", "t", "i", "n", "g", "s">>,
           Obj(<< <<<<"t", "h", "e", "m", "e">>, Undef>> >>)>> >>)

\* n times the character c
Repeat(c, n) == [i \in 1..n |-> c] \o <<>>

\* strings whose JSON text is exactly, and one more than, the default threshold
LargeStrings ==
  {Str(Repeat("a", DEFAULT_THRESHOLD - 2)), Str(Repeat("a", DEFAULT_THRESHOLD - 1))}
IsLarge(x) == Tag(x) = "str" /\ Len(Val(x)) >= DEFAULT_THRESHOLD - 2

UserKey == StateKey(<<"u", "s", "e", "r">>, KIND_RAWSTATE, 0)
CountKey == StateKey(<<"c", "o", "u", "n", "t">>, KIND_STATE, 0)

UserValues == ValuesOfDepth(MaxDepth) \cup {ScenarioUser}
CountValues == Leaves \cup LargeStrings

CompressOptions == {Undef, Bool(TRUE), Bool(FALSE)}
ThresholdOptions == {Undef, Num(0), Num(3)}

HasLarge(m) == \E i \in 1..Len(m) : IsLarge(m[i][2])

CodecInit ==
  /\ codecMap = <<>>
  /\ codecOptions = [compress |-> Undef, threshold |-> Undef]
  /\ codecScript = <<>>
  /\ codecWindow = NoTable
  /\ codecPhase = "server"

\* a cell of the request writes its key (a large entry is serialized alone)
CodecSet(k, x) ==
  /\ codecPhase = "server"
  /\ ~HasLarge(codecMap)
  /\ IsLarge(x) => Len(codecMap) = 0
  /\ codecMap' = MapSet(codecMap, k, x)
  /\ UNCHANGED <<codecOptions, codecScript, codecWindow, codecPhase, nonCodecVars>>

\* serialize(html, options) calls stateSerialize
CodecSerialize(c, t) ==
  /\ codecPhase = "server"
  /\ codecOptions' = [compress |-> c, threshold |-> t]
  /\ codecScript' = stateSerialize(codecMap, codecOptions')
  /\ codecPhase' = "serialized"
  /\ UNCHANGED <<codecMap, codecWindow, nonCodecVars>>

\* the browser parses the page and runs the script block
CodecExec ==
  /\ codecPhase = "serialized"
  /\ codecWindow' = ExecScript(codecScript, codecWindow)
  /\ codecPhase' = "executed"
  /\ UNCHANGED <<codecMap, codecOptions, codecScript, nonCodecVars>>

CodecNext ==
  \/ \E x \in UserValues : CodecSet(UserKey, x)
  \/ \E x \in CountValues : CodecSet(CountKey, x)
  \/ \E c \in CompressOptions : \E t \in ThresholdOptions : CodecSerialize(c, t)
  \/ CodecExec


(***************************************************************************)
(* The server: requests handled concurrently by edgesHandle                *)
(*                                                                         *)
(* A step of the model is one synchronous run of code between two awaits.  *)
(* The code of request r runs in the asynchronous scope storage.run        *)
(* opened for r; code at module level runs in no scope (Outside).          *)
(***************************************************************************)
\* how many steps the code of all the requests takes
MaxSteps == 4

\* the requests in flight
Reqs == {1, 2}
Outside == 0

\* a context without a request symbol
NoContext == [symbol |-> 0, providers |-> <<>>]

Threw == [threw |-> TRUE, ctx |-> NoContext]
Returned(c) == [threw |-> FALSE, ctx |-> c]

\* storage.getStore() called by code running in scope caller; ok is FALSE for
\* undefined
getStore(caller) ==
  IF caller = Outside \/ storage[caller].symbol = 0
  THEN [ok |-> FALSE, ctx |-> NoContext]
  ELSE [ok |-> TRUE, ctx |-> storage[caller]]

\* a resolver that keeps the store of the scope that installed it
GetterOfInstaller(installer, caller) == Returned(storage[installer])

\* the resolver's end: context is what storage.getStore() returned
GetterResult(context) == IF ~context.ok THEN Threw ELSE Returned(context.ctx)

\* the resolver edgesHandle installs, called by code running in scope caller
Getter(installer, caller) == GetterResult(getStore(caller))

\* a manager that hands out an empty context while no resolver is installed
CurrentOrDefault(caller) ==
  IF currentGetter = 0 THEN Returned(NoContext) ELSE Getter(currentGetter, caller)

\* RequestContext.current() on the server
Current(caller) ==
  IF currentGetter = 0 THEN Threw ELSE Getter(currentGetter, caller)


(***************************************************************************)
(* State cells on the server (createState, createRawState,                 *)
(* createDerivedState)                                                     *)
(***************************************************************************)
\* getRequestContext() after RequestContext.current() gave context; sym is the
\* symbol of the state map returned, 0 when undefined is returned
RequestContextOf(context, stores) ==
  IF context.threw THEN [threw |-> TRUE, sym |-> 0, stores |-> stores]
  ELSE IF context.ctx.symbol # 0
  THEN [threw |-> FALSE, sym |-> context.ctx.symbol,
        stores |-> IF MapHas(stores, context.ctx.symbol) THEN stores
                   ELSE MapSet(stores, context.ctx.symbol, <<>>)]
  ELSE [threw |-> FALSE, sym |-> 0, stores |-> stores]

\* getRequestContext() called in scope caller, RequestStores being stores
getRequestContext(caller, stores) == RequestContextOf(Current(caller), stores)

\* a cell: the symbol of the state map it captured (0: none, the cell keeps
\* its initial value), its key and its initial value
Cell(kind, sym, key, initial) ==
  [kind |-> kind, sym |-> sym, key |-> key, initial |-> initial]

NoCell == Cell("none", 0, <<>>, Undef)

\* map.set(key, val) on the state map of symbol sym
StoreSet(stores, sym, key, val) ==
  MapSet(stores, sym, MapSet(MapGet(stores, sym), key, val))

\* createState after getRequestContext() gave map
StateOn(map, key, initial) ==
  IF map.threw THEN [threw |-> TRUE, cell |-> NoCell, stores |-> map.stores]
  ELSE IF map.sym = 0
  THEN [threw |-> FALSE, cell |-> Cell("state", 0, key, initial), stores |-> map.stores]
  ELSE [threw |-> FALSE, cell |-> Cell("state", map.sym, key, initial),
        stores |-> IF MapHas(MapGet(map.stores, map.sym), key) THEN map.stores
                   ELSE StoreSet(map.stores, map.sym, key, initial)]

\* createState(key, initial) on the server
createState(caller, stores, key, initial) ==
  StateOn(getRequestContext(caller, stores), key, initial)

\* createRawState after getRequestContext() gave map
RawStateOn(map, key, initial) ==
  IF map.threw THEN [threw |-> TRUE, cell |-> NoCell, stores |-> map.stores]
  ELSE [threw |-> FALSE, cell |-> Cell("rawstate", map.sym, key, initial),
        stores |-> map.stores]

\* createRawState(key, initial) on the server
createRawState(caller, stores, key, initial) ==
  RawStateOn(getRequestContext(caller, stores), key, initial)

\* subscribe(run) of a createState cell: the value run is called with
StateSubscribe(cell, stores) ==
  IF cell.sym = 0 THEN cell.initial ELSE MapGet(MapGet(stores, cell.sym), cell.key)

\* a set that takes effect only while the key holds the cell's initial value
CellSetOnce(cell, stores, val) ==
  IF cell.sym = 0 \/ MapGet(MapGet(stores, cell.sym), cell.key) # cell.initial
  THEN stores ELSE StoreSet(stores, cell.sym, cell.key, val)

\* set(val) of a createState cell and the value setter of a createRawState cell
CellSet(cell, stores, val) ==
  IF cell.sym = 0 THEN stores ELSE StoreSet(stores, cell.sym, cell.key, val)

\* no function has been passed to subscribe
NoSubscriber == [key |-> <<>>, calls |-> <<>>, unsubscribed |-> 0]

\* subscribe(run) of a createState cell: run is called with the value of the
\* key, and the function returned is kept by the caller
Subscribed(cell, stores) ==
  [key |-> cell.key, calls |-> <<StateSubscribe(cell, stores)>>, unsubscribed |-> 0]

\* a set that calls the function subscribed to the cell with the new value
SetCallsSubscriber(sub, cell, val) ==
  IF sub.key = cell.key THEN [sub EXCEPT !.calls = Append(@, val)] ELSE sub

\* what set(val) and update(updater) of a createState cell do to the function
\* subscribed before: they store the value and call nothing
SetCalls(sub, cell, val) == sub

\* the function subscribe returned: () => {}
Unsubscribed(sub) == [sub EXCEPT !.unsubscribed = @ + 1]

\* the updater the code of request r passes to update: one more than the
\* units of the old value, in the tens of r
Updater(r, oldVal) ==
  IF Tag(oldVal) = "num" THEN Num(10 * r + (Val(oldVal) % 10) + 1) ELSE oldVal

\* an update that applies the updater to the initial value
StateUpdateFromInitial(r, cell, stores) ==
  IF cell.sym = 0 THEN stores ELSE CellSet(cell, stores, Updater(r, cell.initial))

\* update(updater) of a createState cell, by the code of request r
StateUpdate(r, cell, stores) ==
  IF cell.sym = 0 THEN stores
  ELSE CellSet(cell, stores, Updater(r, MapGet(MapGet(stores, cell.sym), cell.key)))

\* the state maps after the value getter of a createRawState cell
RawFill(cell, stores) ==
  IF cell.sym = 0 \/ MapHas(MapGet(stores, cell.sym), cell.key) THEN stores
  ELSE CellSet(cell, stores, cell.initial)

\* the value getter of a createRawState cell
RawGet(cell, stores) ==
  IF cell.sym = 0 THEN cell.initial
  ELSE MapGet(MapGet(RawFill(cell, stores), cell.sym), cell.key)

\* a value that is an object kept at module level: what is stored and passed
\* around is its address
Ref(a) == <<"ref", a>>

\* the lists the application's modules define as defaults of their cells
DEFAULT_ITEMS == "defaultItems"
DEFAULT_TAGS == "defaultTags"

\* an initial value that is a function whose result differs from scope to
\* scope, such as () => getRequestEvent().locals.id
REQUEST_SEED == <<"seed", <<>>>>

\* initFn(): the initial value the factory passes, evaluated in scope caller
InitialOf(initial, caller) ==
  IF Tag(initial) = "seed" THEN Num(caller + 1) ELSE initial

\* the contents of the object value is
Deref(value, objects) == IF Tag(value) = "ref" THEN objects[Val(value)] ELSE value

\* list.push(x) on the object value is
Push(value, objects, x) ==
  IF Tag(value) = "ref"
  THEN [objects EXCEPT ![Val(value)] = Arr(Append(Val(@), x))]
  ELSE objects

\* the function the model's code derives with: it keeps the values it was given
deriveFn(values) == Arr(values)

\* subscribe(run) of a createDerivedState cell. emits[i] is what source i passes
\* to its subscriber, in order, while it is being subscribed to; sub is the
\* subscription: values, initializedCount, isInitialized and what run was
\* called with, one element per call of deriveFn
OnValue(sub, n, i, value) ==
  [values |-> [sub.values EXCEPT ![i] = value],
   initializedCount |-> IF sub.initializedCount < n THEN sub.initializedCount + 1
                        ELSE sub.initializedCount,
   isInitialized |-> sub.isInitialized,
   delivered |-> sub.delivered]

checkAndRun(sub, n) ==
  IF sub.initializedCount >= n /\ ~sub.isInitialized
  THEN [sub EXCEPT !.isInitialized = TRUE,
                   !.delivered = Append(@, deriveFn(sub.values))]
  ELSE sub

RECURSIVE DerivedEmit(_, _, _, _)
DerivedEmit(emits, i, j, sub) ==
  IF i > Len(emits) THEN sub.delivered
  ELSE IF j > Len(emits[i]) THEN DerivedEmit(emits, i + 1, 1, sub)
  ELSE DerivedEmit(emits, i, j + 1,
                   checkAndRun(OnValue(sub, Len(emits), i, emits[i][j]), Len(emits)))

DerivedSubscribe(emits) ==
  DerivedEmit(emits, 1, 1,
              [values |-> [i \in 1..Len(emits) |-> Undef], initializedCount |-> 0,
               isInitialized |-> FALSE, delivered |-> <<>>])

DerivationInit == derivation = [emits |-> <<>>, delivered |-> <<>>]

\* code on the server subscribes to createDerivedState(stores, deriveFn), where
\* subscribing to stores[i] passes emits[i] to the subscriber, value by value
DeriveFrom(emits) ==
  /\ derivation' = [emits |-> emits, delivered |-> DerivedSubscribe(emits)]
  /\ UNCHANGED <<codecVars, serverVars, moduleVars, entryVars, clientVars,
                 subscriberVars, pageVars, keyVars, documentVars, batchVars,
                 chunkVars>>

(***************************************************************************)
(* Providers (createStore, createPresenter over createUiProvider)          *)
(***************************************************************************)
CounterStore == <<"c", "n", "t">>
ListStore == <<"l", "s", "t">>
NothingPresenter == <<"n", "i", "l">>
NullPresenter == <<"n", "u", "l">>

\* the providers the application defines: what the factory creates through
\* its dependencies, in order, the cells its derived cell is made of, and what
\* it returns
Factories ==
  <<[name |-> CounterStore, returns |-> "object",
     states |-> <<[kind |-> "state", initial |-> Num(0)],
                  [kind |-> "state", initial |-> Num(1)],
                  [kind |-> "rawstate", initial |-> Num(2)]>>,
     derived |-> <<1, 2>>],
    [name |-> ListStore, returns |-> "object",
     states |-> <<[kind |-> "state", initial |-> Ref(DEFAULT_ITEMS)],
                  [kind |-> "rawstate", initial |-> Ref(DEFAULT_TAGS)],
                  [kind |-> "state", initial |-> REQUEST_SEED]>>,
     derived |-> <<>>],
    [name |-> NothingPresenter, returns |-> "undefined", states |-> <<>>,
     derived |-> <<>>],
    [name |-> NullPresenter, returns |-> "null", states |-> <<>>, derived |-> <<>>]>>

Names == {Factories[i].name : i \in 1..Len(Factories)}
FactoryOf(name) == Factories[CHOOSE i \in 1..Len(Factories) : Factories[i].name = name]

\* what a provider call hands back: the object (identified by the scope that
\* ran the factory and the number of the run), undefined or null
Instance(returns, name, by, run, cells) ==
  [returns |-> returns, name |-> name, by |-> by, run |-> run, cells |-> cells]

NoInstance == Instance("none", <<>>, 0, 0, <<>>)

\* a factory whose counter is never reset: it counts the entries of all the
\* state maps
FactoryStateCountingOn(caller, stores, key, state, stateCounter) ==
  IF state.kind = "state"
  THEN createState(caller, stores,
                   StateKey(key, KIND_STATE,
                            stateCounter + Len(Flatten([i \in 1..Len(stores) |-> stores[i][2]]))),
                   InitialOf(state.initial, caller))
  ELSE createRawState(caller, stores,
                      StateKey(key, KIND_RAWSTATE,
                               stateCounter + Len(Flatten([i \in 1..Len(stores) |-> stores[i][2]]))),
                      InitialOf(state.initial, caller))

\* deps.createState(initial) or deps.createRawState(initial), stateCounter
\* being the number of cells the factory has created before
FactoryState(caller, stores, key, state, stateCounter) ==
  IF state.kind = "state"
  THEN createState(caller, stores, StateKey(key, KIND_STATE, stateCounter),
                   InitialOf(state.initial, caller))
  ELSE createRawState(caller, stores, StateKey(key, KIND_RAWSTATE, stateCounter),
                      InitialOf(state.initial, caller))

\* the factory goes on with the cell made, or throws what the call threw
FactoryGoesOn(run, made) ==
  IF made.threw THEN [threw |-> TRUE, cells |-> <<>>, stores |-> run.stores]
  ELSE [threw |-> FALSE, cells |-> Append(run.cells, made.cell), stores |-> made.stores]

\* the factory's calls of deps.createState and deps.createRawState, from the
\* i-th on
RECURSIVE FactoryStates(_, _, _, _, _)
FactoryStates(caller, key, states, i, run) ==
  IF run.threw \/ i > Len(states) THEN run
  ELSE FactoryStates(caller, key, states, i + 1,
                     FactoryGoesOn(run, FactoryState(caller, run.stores, key,
                                                     states[i], i - 1)))

\* what the factory returns once its cells are made
FactoryReturn(f, made, caller, cacheKey, n) ==
  IF made.threw THEN [threw |-> TRUE, instance |-> NoInstance, stores |-> made.stores]
  ELSE [threw |-> FALSE,
        instance |-> IF f.returns = "object"
                     THEN Instance("object", cacheKey, caller, n, made.cells)
                     ELSE Instance(f.returns, <<>>, 0, 0, <<>>),
        stores |-> made.stores]

\* factory(deps), run for the n-th time in scope caller
RunFactory(caller, cacheKey, n, stores) ==
  FactoryReturn(FactoryOf(cacheKey),
                FactoryStates(caller, cacheKey, FactoryOf(cacheKey).states, 1,
                              [threw |-> FALSE, cells |-> <<>>, stores |-> stores]),
                caller, cacheKey, n)

\* a lookup that never finds the instance
CachedInstanceNever(contextMap, cacheKey) == [hit |-> FALSE, cached |-> NoInstance]

\* the lookup of the provider closure in its cache
CachedInstance(contextMap, cacheKey) ==
  IF MapHas(contextMap, cacheKey)
  THEN LET cached == contextMap[CHOOSE i \in 1..Len(contextMap) :
                                  contextMap[i][1] = cacheKey][2]
       IN IF cached.returns # "undefined" THEN [hit |-> TRUE, cached |-> cached]
          ELSE [hit |-> FALSE, cached |-> NoInstance]
  ELSE [hit |-> FALSE, cached |-> NoInstance]

\* one map for the contexts of all the requests
ContextMapOfAll(context) == storage[1].providers \o storage[2].providers

\* contextMap: the providers map of the context, a new map when
\* RequestContext.current() threw
ContextMap(context) == IF context.threw THEN <<>> ELSE context.ctx.providers

\* the closure's end, once the factory has run: into is the symbol of the
\* context whose providers map receives the instance, 0 when none does
ProviderMade(made, context) ==
  IF made.threw
  THEN [threw |-> TRUE, ran |-> TRUE, instance |-> NoInstance, into |-> 0,
        stores |-> made.stores]
  ELSE [threw |-> FALSE, ran |-> TRUE, instance |-> made.instance,
        into |-> IF context.threw THEN 0 ELSE context.ctx.symbol,
        stores |-> made.stores]

\* the closure after RequestContext.current() gave context
ProviderIn(context, caller, cacheKey, n, stores) ==
  IF CachedInstance(ContextMap(context), cacheKey).hit
  THEN [threw |-> FALSE, ran |-> FALSE,
        instance |-> CachedInstance(ContextMap(context), cacheKey).cached,
        into |-> 0, stores |-> stores]
  ELSE ProviderMade(RunFactory(caller, cacheKey, n + 1, stores), context)

\* the closure createUiProvider returns, called in scope caller when the factory
\* has run n times there
Provider(caller, cacheKey, n, stores) ==
  ProviderIn(Current(caller), caller, cacheKey, n, stores)

\* one cache for all the contexts in flight, as globalClientCache is in the
\* browser
SetProviderEverywhere(sym, cacheKey, instance) ==
  [q \in Reqs |->
     IF storage[q].symbol # 0
     THEN [storage[q] EXCEPT !.providers = MapSet(@, cacheKey, instance)]
     ELSE storage[q]]

\* contextMap.set(cacheKey, instance) on the providers map of the context with
\* symbol sym
SetProvider(sym, cacheKey, instance) ==
  [q \in Reqs |->
     IF sym # 0 /\ storage[q].symbol = sym
     THEN [storage[q] EXCEPT !.providers = MapSet(@, cacheKey, instance)]
     ELSE storage[q]]

(***************************************************************************)
(* edgesHandle after callback has returned: the state of the request is    *)
(* added to a JSON response                                                *)
(***************************************************************************)
APPLICATION_JSON ==
  <<"a", "p", "p", "l", "i", "c", "a", "t", "i", "o", "n", "/", "j", "s", "o",
  "n">>
JSON_UTF8 ==
  <<"a", "p", "p", "l", "i", "c", "a", "t", "i", "o", "n", "/", "j", "s", "o",
  "n", ";", " ", "c", "h", "a", "r", "s", "e", "t", "=", "u", "t", "f", "-",
  "8">>
TEXT_HTML ==
  <<"t", "e", "x", "t", "/", "h", "t", "m", "l">>
EDGES_STATE ==
  <<"_", "_", "e", "d", "g", "e", "s", "_", "s", "t", "a", "t", "e", "_",
  "_">>

\* s.includes(w)
Includes(s, w) == \E p \in 1..(Len(s) - Len(w) + 1) : SubSeq(s, p, p + Len(w) - 1) = w

\* a response: status, the content-type and content-length headers (<<>> when
\* absent) and the text of the body
Response(status, contentType, contentLength, body) ==
  [status |-> status, contentType |-> contentType, contentLength |-> contentLength,
   body |-> body]

NoResponse == Response(0, <<>>, <<>>, <<>>)

\* getStateMap() after getRequestContext() gave map
StateMapOf(map) ==
  IF map.threw \/ map.sym = 0
  THEN [defined |-> FALSE, map |-> <<>>, stores |-> map.stores]
  ELSE [defined |-> TRUE, map |-> MapGet(map.stores, map.sym), stores |-> map.stores]

\* getStateMap() called in scope caller
getStateMap(caller, stores) == StateMapOf(getRequestContext(caller, stores))

\* {...value}: the own enumerable properties of value. Keys that are array
\* indexes come first in a JavaScript object, as they do here
Spread(value) ==
  CASE Tag(value) = "obj" -> value
    [] Tag(value) = "arr" ->
         Obj([i \in 1..Len(Val(value)) |-> <<NumText(i - 1), Val(value)[i]>>])
    [] Tag(value) = "str" ->
         Obj([i \in 1..Len(Val(value)) |-> <<NumText(i - 1), Str(<<Val(value)[i]>>)>>])
    [] OTHER -> Obj(<<>>)

\* stateObj: every entry of the state map, stringified with safeReplacer
StateObj(stateMap) ==
  Obj([i \in 1..Len(stateMap) |->
         <<stateMap[i][1], Str(JSONStringify(stateMap[i][2], "handle"))>>])

\* a content-length counted in characters
ContentLengthInChars(modifiedBody) == NumText(Len(modifiedBody))

\* String(textEncoder.encode(modifiedBody).length)
ContentLength(modifiedBody) == NumText(Len(TextEncode(modifiedBody)))

\* a handler that answers 500 with an empty body
ParseFailureAsError(text, response) == Response(500, <<>>, <<>>, <<>>)

\* the inner catch: the text that was read, under the response's status and
\* headers
ParseFailure(text, response) ==
  Response(response.status, response.contentType, response.contentLength, text)

\* the response with the state added to the parsed body
Injected(parsed, response, stateMap) ==
  Response(response.status, response.contentType,
           ContentLength(JSONStringify(SetProp(Spread(parsed), EDGES_STATE,
                                               StateObj(stateMap)), "none")),
           JSONStringify(SetProp(Spread(parsed), EDGES_STATE, StateObj(stateMap)),
                         "none"))

\* the try around JSON.parse(text), parsed being its outcome
InjectParsed(parsed, text, response, stateMap) ==
  IF ~parsed.ok THEN ParseFailure(text, response)
  ELSE Injected(parsed.val, response, stateMap)

\* the response built from the text of a JSON response and a state map that
\* has entries
InjectState(text, response, stateMap) ==
  InjectParsed(JSONParse(text), text, response, stateMap)

\* a handler that adds the field whenever there is a state map, also an empty
\* one
HandleStateMapOfAnySize(stateMap, response) ==
  IF stateMap.defined
  THEN [response |-> InjectState(response.body, response, stateMap.map),
        stores |-> stateMap.stores]
  ELSE [response |-> response, stores |-> stateMap.stores]

\* edgesHandle once getStateMap() gave stateMap
HandleStateMap(stateMap, response) ==
  IF stateMap.defined /\ Len(stateMap.map) > 0
  THEN [response |-> InjectState(response.body, response, stateMap.map),
        stores |-> stateMap.stores]
  ELSE [response |-> response, stores |-> stateMap.stores]

\* what edgesHandle returns for the response callback returned in scope caller
HandleResponse(caller, response, stores) ==
  IF ~Includes(response.contentType, APPLICATION_JSON)
  THEN [response |-> response, stores |-> stores]
  ELSE HandleStateMap(getStateMap(caller, stores), response)

(***************************************************************************)
(* The server's steps                                                      *)
(***************************************************************************)
ServerInit ==
  /\ currentGetter = 0
  /\ storage = [r \in Reqs |-> NoContext]
  /\ nextSymbol = 1
  /\ RequestStores = <<>>
  /\ pc = [r \in Reqs |-> "idle"]
  /\ steps = [r \in Reqs |-> 0]
  /\ held = [r \in Reqs |-> [n \in Names |-> NoInstance]]
  /\ seen = [r \in Reqs |-> [symbol |-> 0, getter |-> 0]]
  /\ lastRead = [r \in Reqs |-> [key |-> <<>>, value |-> Undef, own |-> Undef,
                                 others |-> {}]]
  /\ shadow = [r \in Reqs |-> <<>>]
  /\ touched = [r \in Reqs |-> {}]
  /\ runs = [r \in Reqs |-> [n \in Names |-> 0]]
  /\ returned = [r \in Reqs |-> [n \in Names |-> {}]]
  /\ outcome = [op |-> "none", installed |-> FALSE, result |-> "none"]
  /\ derivedLog = [r \in Reqs |-> <<>>]
  /\ replies = [r \in Reqs |-> [given |-> NoResponse, sent |-> NoResponse]]

SubscriberInit == subscriber = [r \in Reqs |-> NoSubscriber]

ModuleInit ==
  /\ heap = [a \in {DEFAULT_ITEMS, DEFAULT_TAGS} |-> Arr(<<>>)]
  /\ pushed = [r \in Reqs |-> [i \in 1..2 |-> <<>>]]

RECURSIVE Sum(_, _)
Sum(f, S) ==
  IF S = {} THEN 0
  ELSE (f[CHOOSE x \in S : TRUE]) + Sum(f, S \ {CHOOSE x \in S : TRUE})

\* the code of request r is between two awaits and may take another step
InScope(r) == pc[r] = "callback" /\ Sum(steps, Reqs) < MaxSteps

SeenOf(context) ==
  [symbol |-> IF context.threw THEN -1 ELSE context.ctx.symbol, getter |-> currentGetter]

\* what request r's own code stored last under the key of cell
ShadowGet(r, cell) ==
  IF MapHas(shadow[r], cell.key) THEN MapGet(shadow[r], cell.key) ELSE cell.initial

\* what the requests other than r have stored under the key of cell
ShadowOthers(r, cell) ==
  {MapGet(shadow[q], cell.key) : q \in {q \in Reqs \ {r} : MapHas(shadow[q], cell.key)}}

\* the value request r's code stores with set and the value setter
SetValue(r) == Num(10 * r)

\* the path Chrome DevTools asks for, and other paths
DEVTOOLS_PATH ==
  <<"/", ".", "w", "e", "l", "l", "-", "k", "n", "o", "w", "n", "/", "a", "p", "p",
    "s", "p", "e", "c", "i", "f", "i", "c", "/", "c", "o", "m", ".", "c", "h", "r",
    "o", "m", "e", ".", "d", "e", "v", "t", "o", "o", "l", "s", ".", "j", "s", "o",
    "n">>
ROOT_PATH == <<"/">>
Paths == {DEVTOOLS_PATH, ROOT_PATH}

\* a test of the path alone
IsDevtoolsPath(silentChromeDevtools, pathname) == pathname = DEVTOOLS_PATH

\* silentChromeDevtools && event.url.pathname === '/.well-known/...'
IsDevtoolsProbe(silentChromeDevtools, pathname) ==
  silentChromeDevtools /\ pathname = DEVTOOLS_PATH

\* new Response(null, { status: 204 })
NO_CONTENT == Response(204, <<>>, <<>>, <<>>)

EntryInit ==
  entered = [r \in Reqs |-> [silent |-> FALSE, pathname |-> <<>>, calls |-> 0,
                             symbol |-> 0]]

\* edgesHandle(event, callback, silentChromeDevtools) up to its first await: a
\* new symbol, storage.run with a new context, RequestContext.init, then
\* either the 204 response or the call of callback
HandleEnter(r, silentChromeDevtools, pathname) ==
  /\ pc[r] = "idle"
  /\ storage' = [storage EXCEPT ![r] = [symbol |-> nextSymbol, providers |-> <<>>]]
  /\ nextSymbol' = nextSymbol + 1
  /\ currentGetter' = r
  /\ pc' = [pc EXCEPT ![r] = IF IsDevtoolsProbe(silentChromeDevtools, pathname)
                             THEN "done" ELSE "callback"]
  /\ replies' = [replies EXCEPT ![r] =
                   IF IsDevtoolsProbe(silentChromeDevtools, pathname)
                   THEN [given |-> NoResponse, sent |-> NO_CONTENT] ELSE @]
  /\ entered' = [entered EXCEPT ![r] =
                   [silent |-> silentChromeDevtools, pathname |-> pathname,
                    calls |-> IF IsDevtoolsProbe(silentChromeDevtools, pathname)
                              THEN @.calls ELSE @.calls + 1,
                    symbol |-> IF IsDevtoolsProbe(silentChromeDevtools, pathname)
                               THEN @.symbol ELSE nextSymbol]]
  /\ UNCHANGED <<RequestStores, steps, held, seen, lastRead, shadow, touched, runs,
                 returned, outcome, derivedLog,
                 codecVars, moduleVars, clientVars, subscriberVars, restVars>>

\* edgesHandle(event, callback) for a page of the application
HandleStart(r) == HandleEnter(r, FALSE, ROOT_PATH)

\* the code of request r calls RequestContext.current()
ReadContext(r) ==
  /\ InScope(r)
  /\ steps' = [steps EXCEPT ![r] = @ + 1]
  /\ seen' = [seen EXCEPT ![r] = SeenOf(Current(r))]
  /\ UNCHANGED <<currentGetter, storage, nextSymbol, RequestStores, pc, held,
                 lastRead, shadow, touched, runs, returned, outcome, derivedLog,
                 replies,
                 nonServerVars>>

\* the code of request r calls the provider called name
UseProvider(r, name) ==
  /\ InScope(r)
  /\ \E p \in {Provider(r, name, runs[r][name], RequestStores)} :
        /\ storage' = IF p.ran /\ ~p.threw THEN SetProvider(p.into, name, p.instance)
                      ELSE storage
        /\ RequestStores' = p.stores
        /\ held' = [held EXCEPT ![r][name] = IF p.threw THEN @ ELSE p.instance]
        /\ runs' = [runs EXCEPT ![r][name] = IF p.ran THEN @ + 1 ELSE @]
        /\ returned' = [returned EXCEPT ![r][name] =
                          IF p.threw THEN @ ELSE @ \cup {p.instance}]
        /\ touched' = [touched EXCEPT ![r] =
                         IF p.ran /\ ~p.threw
                         THEN @ \cup {p.instance.cells[i].sym :
                                        i \in 1..Len(p.instance.cells)}
                         ELSE @]
  /\ steps' = [steps EXCEPT ![r] = @ + 1]
  /\ seen' = [seen EXCEPT ![r] = SeenOf(Current(r))]
  /\ UNCHANGED <<currentGetter, nextSymbol, pc, lastRead, shadow, outcome, derivedLog,
                 replies,
                 nonServerVars>>

\* the cells of the counter store request r's code holds, by kind
HeldCells(r, kind) ==
  {i \in 1..Len(held[r][CounterStore].cells) : held[r][CounterStore].cells[i].kind = kind}

HeldCell(r, i) == held[r][CounterStore].cells[i]

\* set(val) on the i-th cell of the counter store
WriteState(r, i, val) ==
  /\ InScope(r)
  /\ i \in HeldCells(r, "state")
  /\ RequestStores' = CellSet(HeldCell(r, i), RequestStores, val)
  /\ subscriber' = [subscriber EXCEPT ![r] = SetCalls(@, HeldCell(r, i), val)]
  /\ shadow' = [shadow EXCEPT ![r] = MapSet(@, HeldCell(r, i).key, val)]
  /\ touched' = [touched EXCEPT ![r] = @ \cup {HeldCell(r, i).sym}]
  /\ steps' = [steps EXCEPT ![r] = @ + 1]
  /\ UNCHANGED <<currentGetter, storage, nextSymbol, pc, held, seen, lastRead, runs,
                 returned, outcome, derivedLog, replies,
                 nonCellVars>>

\* update(updater) on the i-th cell of the counter store
UpdateState(r, i) ==
  /\ InScope(r)
  /\ i \in HeldCells(r, "state")
  /\ RequestStores' = StateUpdate(r, HeldCell(r, i), RequestStores)
  /\ subscriber' = [subscriber EXCEPT ![r] =
                      SetCalls(@, HeldCell(r, i),
                               Updater(r, StateSubscribe(HeldCell(r, i), RequestStores)))]
  /\ shadow' = [shadow EXCEPT ![r] =
                  MapSet(@, HeldCell(r, i).key,
                         Updater(r, ShadowGet(r, HeldCell(r, i))))]
  /\ touched' = [touched EXCEPT ![r] = @ \cup {HeldCell(r, i).sym}]
  /\ steps' = [steps EXCEPT ![r] = @ + 1]
  /\ UNCHANGED <<currentGetter, storage, nextSymbol, pc, held, seen, lastRead, runs,
                 returned, outcome, derivedLog, replies,
                 nonCellVars>>

\* subscribe(run) on the i-th cell of the counter store
ReadState(r, i) ==
  /\ InScope(r)
  /\ i \in HeldCells(r, "state")
  /\ lastRead' = [lastRead EXCEPT ![r] =
                    [key |-> HeldCell(r, i).key,
                     value |-> StateSubscribe(HeldCell(r, i), RequestStores),
                     own |-> ShadowGet(r, HeldCell(r, i)),
                     others |-> ShadowOthers(r, HeldCell(r, i))]]
  /\ subscriber' = [subscriber EXCEPT ![r] = Subscribed(HeldCell(r, i), RequestStores)]
  /\ touched' = [touched EXCEPT ![r] = @ \cup {HeldCell(r, i).sym}]
  /\ steps' = [steps EXCEPT ![r] = @ + 1]
  /\ UNCHANGED <<currentGetter, storage, nextSymbol, RequestStores, pc, held, seen,
                 shadow, runs, returned, outcome, derivedLog, replies,
                 nonCellVars>>

\* the code of request r calls the function its last subscribe returned
Unsubscribe(r) ==
  /\ InScope(r)
  /\ subscriber[r].key # <<>>
  /\ subscriber' = [subscriber EXCEPT ![r] = Unsubscribed(@)]
  /\ steps' = [steps EXCEPT ![r] = @ + 1]
  /\ UNCHANGED <<currentGetter, storage, nextSymbol, RequestStores, pc, held, seen,
                 lastRead, shadow, touched, runs, returned, outcome, derivedLog,
                 replies,
                 nonCellVars>>

\* the value setter of the i-th cell of the counter store
WriteRaw(r, i, val) ==
  /\ InScope(r)
  /\ i \in HeldCells(r, "rawstate")
  /\ RequestStores' = CellSet(HeldCell(r, i), RequestStores, val)
  /\ shadow' = [shadow EXCEPT ![r] = MapSet(@, HeldCell(r, i).key, val)]
  /\ touched' = [touched EXCEPT ![r] = @ \cup {HeldCell(r, i).sym}]
  /\ steps' = [steps EXCEPT ![r] = @ + 1]
  /\ UNCHANGED <<currentGetter, storage, nextSymbol, pc, held, seen, lastRead, runs,
                 returned, outcome, derivedLog, replies,
                 nonServerVars>>

\* the value getter of the i-th cell of the counter store
ReadRaw(r, i) ==
  /\ InScope(r)
  /\ i \in HeldCells(r, "rawstate")
  /\ RequestStores' = RawFill(HeldCell(r, i), RequestStores)
  /\ lastRead' = [lastRead EXCEPT ![r] =
                    [key |-> HeldCell(r, i).key,
                     value |-> RawGet(HeldCell(r, i), RequestStores),
                     own |-> ShadowGet(r, HeldCell(r, i)),
                     others |-> ShadowOthers(r, HeldCell(r, i))]]
  /\ touched' = [touched EXCEPT ![r] = @ \cup {HeldCell(r, i).sym}]
  /\ steps' = [steps EXCEPT ![r] = @ + 1]
  /\ UNCHANGED <<currentGetter, storage, nextSymbol, pc, held, seen, shadow, runs,
                 returned, outcome, derivedLog, replies,
                 nonServerVars>>

\* the i-th cell of the list store
ListCell(r, i) == held[r][ListStore].cells[i]

\* what the code of request r reads from the i-th cell of the list store
ListValue(r, i, stores) ==
  IF ListCell(r, i).kind = "state" THEN StateSubscribe(ListCell(r, i), stores)
  ELSE RawGet(ListCell(r, i), stores)

\* the code of request r pushes onto the list in the i-th cell of the list
\* store: update(list => { list.push(x); return list }) on a createState cell,
\* cell.value.push(x) on a createRawState cell
PushInPlace(r, i) ==
  /\ InScope(r)
  /\ i \in 1..Len(held[r][ListStore].cells)
  /\ RequestStores' = IF ListCell(r, i).kind = "state"
                      THEN StateUpdate(r, ListCell(r, i), RequestStores)
                      ELSE RawFill(ListCell(r, i), RequestStores)
  /\ heap' = Push(ListValue(r, i, RequestStores), heap, Num(r))
  /\ pushed' = [pushed EXCEPT ![r][i] = Append(@, Num(r))]
  /\ touched' = [touched EXCEPT ![r] = @ \cup {ListCell(r, i).sym}]
  /\ steps' = [steps EXCEPT ![r] = @ + 1]
  /\ UNCHANGED <<currentGetter, storage, nextSymbol, pc, held, seen, lastRead, shadow,
                 runs, returned, outcome, derivedLog, replies,
                 codecVars, entryVars, clientVars, subscriberVars, restVars>>

\* what the sources of the derived cell of the counter store pass to their
\* subscribers when subscribed to
DerivedSources(r) ==
  [i \in 1..Len(FactoryOf(CounterStore).derived) |->
     <<StateSubscribe(HeldCell(r, FactoryOf(CounterStore).derived[i]), RequestStores)>>]

\* subscribe(run) on the derived cell of the counter store
SubscribeDerived(r) ==
  /\ InScope(r)
  /\ held[r][CounterStore].returns = "object"
  /\ derivedLog' = [derivedLog EXCEPT ![r] =
                      Append(@, DerivedSubscribe(DerivedSources(r)))]
  /\ steps' = [steps EXCEPT ![r] = @ + 1]
  /\ UNCHANGED <<currentGetter, storage, nextSymbol, RequestStores, pc, held, seen,
                 lastRead, shadow, touched, runs, returned, outcome, replies,
                 nonServerVars>>

\* callback has returned response and edgesHandle returns its own
HandleFinish(r, response) ==
  /\ pc[r] = "callback"
  /\ pc' = [pc EXCEPT ![r] = "done"]
  /\ \E handled \in {HandleResponse(r, response, RequestStores)} :
        /\ RequestStores' = handled.stores
        /\ replies' = [replies EXCEPT ![r] =
                         [given |-> response, sent |-> handled.response]]
  /\ seen' = [seen EXCEPT ![r] =
                IF Includes(response.contentType, APPLICATION_JSON)
                THEN SeenOf(Current(r)) ELSE @]
  /\ UNCHANGED <<currentGetter, storage, nextSymbol, steps, held, lastRead, shadow,
                 touched, runs, returned, outcome, derivedLog,
                 nonServerVars>>

ModuleKey == StateKey(<<"m", "o", "d">>, KIND_STATE, 0)

\* code at module level, in no request's scope, calls createState
OutsideCreateState ==
  /\ \E made \in {createState(Outside, RequestStores, ModuleKey, Num(0))} :
        /\ RequestStores' = made.stores
        /\ outcome' = [op |-> "createState", installed |-> currentGetter # 0,
                       result |-> IF made.threw THEN "threw" ELSE "cell"]
  /\ UNCHANGED <<currentGetter, storage, nextSymbol, pc, steps, held, seen, lastRead,
                 shadow, touched, runs, returned, derivedLog, replies,
                 nonServerVars>>

\* code at module level, in no request's scope, calls createRawState
OutsideCreateRawState ==
  /\ \E made \in {createRawState(Outside, RequestStores, ModuleKey, Num(0))} :
        /\ RequestStores' = made.stores
        /\ outcome' = [op |-> "createRawState", installed |-> currentGetter # 0,
                       result |-> IF made.threw THEN "threw" ELSE "cell"]
  /\ UNCHANGED <<currentGetter, storage, nextSymbol, pc, steps, held, seen, lastRead,
                 shadow, touched, runs, returned, derivedLog, replies,
                 nonServerVars>>

\* code at module level, in no request's scope, calls the provider called name
OutsideUseProvider(name) ==
  /\ \E p \in {Provider(Outside, name, 0, RequestStores)} :
        /\ storage' = IF p.ran /\ ~p.threw THEN SetProvider(p.into, name, p.instance)
                      ELSE storage
        /\ RequestStores' = p.stores
        /\ outcome' = [op |-> "provider", installed |-> currentGetter # 0,
                       result |-> IF p.threw THEN "threw" ELSE p.instance.returns,
                       name |-> name, ran |-> p.ran, into |-> p.into,
                       instance |-> p.instance]
  /\ UNCHANGED <<currentGetter, nextSymbol, pc, steps, held, seen, lastRead,
                 shadow, touched, runs, returned, derivedLog, replies,
                 nonServerVars>>

\* a stateSerialize that empties the map it has written out
SerializedDraining(map, options) ==
  [out |-> IF map.threw \/ map.sym = 0 THEN <<>>
           ELSE stateSerialize(MapGet(map.stores, map.sym), options),
   stores |-> IF map.threw \/ map.sym = 0 THEN map.stores
              ELSE MapSet(map.stores, map.sym, <<>>)]

\* stateSerialize(options) called in the scope of a request, after
\* getRequestContext() gave map: the block returned, and the state maps as the
\* call leaves them
Serialized(map, options) ==
  [out |-> IF map.threw \/ map.sym = 0 THEN <<>>
           ELSE stateSerialize(MapGet(map.stores, map.sym), options),
   stores |-> map.stores]

ChunkInit == chunks = <<>>

\* the callback of request r calls serialize(html, { compress: c,
\* compressionThreshold: t }) for a chunk of the page
SerializeChunk(r, c, t) ==
  /\ InScope(r)
  /\ \E s \in {Serialized(getRequestContext(r, RequestStores),
                            [compress |-> c, threshold |-> t])} :
        /\ RequestStores' = s.stores
        /\ chunks' = Append(chunks,
                            [request |-> r,
                             options |-> [compress |-> c, threshold |-> t],
                             state |-> IF MapHas(RequestStores, storage[r].symbol)
                                       THEN MapGet(RequestStores, storage[r].symbol)
                                       ELSE <<>>,
                             out |-> s.out])
  /\ steps' = [steps EXCEPT ![r] = @ + 1]
  /\ UNCHANGED <<currentGetter, storage, nextSymbol, pc, held, seen, lastRead,
                 shadow, touched, runs, returned, outcome, derivedLog, replies,
                 codecVars, moduleVars, entryVars, clientVars, subscriberVars,
                 derivationVars, pageVars, keyVars, documentVars, batchVars>>

(***************************************************************************)
(* The browser: providers and their cache                                  *)
(***************************************************************************)
\* how many calls the code of the page makes
MaxCalls == 3

\* the scope of the code of the page
Browser == -1

\* value is truthy
Truthy(value) ==
  CASE Tag(value) \in {"undef", "null", "hole"} -> FALSE
    [] Tag(value) = "bool" -> Val(value)
    [] Tag(value) = "num" -> Val(value) # 0
    [] Tag(value) = "str" -> Len(Val(value)) > 0
    [] OTHER -> TRUE

\* a getBrowserState that takes the table's value only when it is truthy
getBrowserStateIfTruthy(key, initial, table) ==
  IF table.def /\ MapHas(table.map, key) /\ Truthy(MapGet(table.map, key))
  THEN MapGet(table.map, key)
  ELSE initial

\* getBrowserState(key, initial)
getBrowserState(key, initial, table) ==
  IF ~table.def THEN initial
  ELSE IF MapHas(table.map, key) THEN MapGet(table.map, key)
  ELSE initial

\* window.__SAFE_SSR_STATE__.set(key, val), the map being made when there is
\* none
WindowSet(table, key, val) ==
  Table(MapSet(IF table.def THEN table.map ELSE <<>>, key, val))

\* the page: the rehydration table, the registered callbacks and the values of
\* the cells
Page(table, callbacks, cells) == [table |-> table, callbacks |-> callbacks, cells |-> cells]

\* createState / createRawState in the browser: the cell starts from the table's
\* value and registers its callback under the key
ClientState(page, key, state) ==
  Page(page.table,
       MapSet(page.callbacks, key, state.kind),
       MapSet(page.cells, key, getBrowserState(key, state.initial, page.table)))

\* the factory's calls of deps.createState and deps.createRawState in the
\* browser, from the i-th on
RECURSIVE ClientFactoryStates(_, _, _, _)
ClientFactoryStates(key, states, i, page) ==
  IF i > Len(states) THEN page
  ELSE ClientFactoryStates(key, states, i + 1,
                           ClientState(page, StateKey(key, KindText(states[i].kind), i - 1),
                                       [kind |-> states[i].kind,
                                        initial |-> InitialOf(states[i].initial, Browser)]))

\* the cells of the instance a factory returns in the browser
ClientCells(key, states) ==
  [i \in 1..Len(states) |->
     Cell(states[i].kind, 0, StateKey(key, KindText(states[i].kind), i - 1),
          InitialOf(states[i].initial, Browser))]

\* what factory(deps) returns in the browser, run for the n-th time
ClientInstance(f, cacheKey, n) ==
  IF f.returns = "object"
  THEN Instance("object", cacheKey, Browser, n, ClientCells(cacheKey, f.states))
  ELSE Instance(f.returns, <<>>, 0, 0, <<>>)

\* the closure createUiProvider returns, called in the browser when the
\* factory has run n times
ClientProvider(cacheKey, n, cache, page) ==
  IF CachedInstance(cache, cacheKey).hit
  THEN [ran |-> FALSE, instance |-> CachedInstance(cache, cacheKey).cached,
        cache |-> cache, page |-> page]
  ELSE [ran |-> TRUE, instance |-> ClientInstance(FactoryOf(cacheKey), cacheKey, n + 1),
        cache |-> MapSet(cache, cacheKey,
                         ClientInstance(FactoryOf(cacheKey), cacheKey, n + 1)),
        page |-> ClientFactoryStates(cacheKey, FactoryOf(cacheKey).states, 1, page)]

\* the cells registered under keys, with the values they have in page
CellsOf(keys, page) ==
  [j \in 1..Len(keys) |-> [key |-> keys[j], value |-> MapGet(page.cells, keys[j])]]

\* stateUpdateCallbacks.set(key, callback) for each of keys: the cells that had
\* registered under one of them before lose their callback
ReplacedBy(keys, page) ==
  CellsOf(SelectSeq(keys, LAMBDA k : MapHas(page.callbacks, k)), page)

\* a value setter that leaves the table alone
BrowserRawSetCellOnly(page, key, val) ==
  Page(page.table, page.callbacks, MapSet(page.cells, key, val))

\* createState in the browser: the patched state.set(value)
BrowserSet(page, key, value) ==
  Page(WindowSet(page.table, key, value), page.callbacks, MapSet(page.cells, key, value))

\* the updater the code of the page passes to update
ClientUpdater(current) ==
  IF Tag(current) = "num" THEN Num(Val(current) + 1) ELSE Num(1)

\* createState in the browser: the patched state.update(updater)
BrowserUpdate(page, key) ==
  Page(WindowSet(page.table, key, ClientUpdater(MapGet(page.cells, key))),
       page.callbacks,
       MapSet(page.cells, key, ClientUpdater(MapGet(page.cells, key))))

\* createRawState in the browser: the value setter
BrowserRawSet(page, key, val) ==
  Page(WindowSet(page.table, key, val), page.callbacks, MapSet(page.cells, key, val))

\* s.startsWith(w)
StartsWith(s, w) == Len(w) <= Len(s) /\ SubSeq(s, 1, Len(w)) = w

\* a clearCache that removes the entries whose name starts with the pattern
clearCacheByPrefix(inBrowser, pattern, cache) ==
  IF ~inBrowser THEN cache
  ELSE IF Tag(pattern) = "str" /\ Len(Val(pattern)) > 0
  THEN SelectSeq(cache, LAMBDA entry : ~StartsWith(entry[1], Val(pattern)))
  ELSE <<>>

\* clearCache(pattern): pattern is undefined or a string
clearCache(inBrowser, pattern, cache) ==
  IF ~inBrowser THEN cache
  ELSE IF Tag(pattern) = "str" /\ Len(Val(pattern)) > 0
  THEN SelectSeq(cache, LAMBDA entry : ~Includes(entry[1], Val(pattern)))
  ELSE <<>>

(***************************************************************************)
(* The inBrowser: processEdgesState and the patched window.fetch             *)
(***************************************************************************)
\* the value processEdgesState stores for an entry whose value is a string,
\* parsed being what JSON.parse(value, safeReviver) gave
ProcessedOf(value, parsed) == IF parsed.ok THEN parsed.val ELSE value

\* the value processEdgesState stores for an entry
ProcessedValue(value) ==
  IF Tag(value) = "str" THEN ProcessedOf(value, JSONParseRevived(Val(value))) ELSE value

\* the callback a cell registers: a createState cell calls its set, which
\* also writes the table; a createRawState cell assigns its state
StateUpdateCallback(page, key, value) ==
  IF MapGet(page.callbacks, key) = "state"
  THEN Page(WindowSet(page.table, key, value), page.callbacks,
            MapSet(page.cells, key, value))
  ELSE Page(page.table, page.callbacks, MapSet(page.cells, key, value))

\* the body of processEdgesState's loop for one entry, value being processed
ProcessEntry(page, key, value) ==
  IF MapHas(page.callbacks, key)
  THEN StateUpdateCallback(Page(WindowSet(page.table, key, value), page.callbacks,
                                page.cells), key, value)
  ELSE Page(WindowSet(page.table, key, value), page.callbacks, page.cells)

\* processEdgesState's loop over Object.entries(edgesState), from the i-th on
RECURSIVE ProcessEntries(_, _, _)
ProcessEntries(entries, i, page) ==
  IF i > Len(entries) THEN page
  ELSE ProcessEntries(entries, i + 1,
                      ProcessEntry(page, entries[i][1], ProcessedValue(entries[i][2])))

\* a processEdgesState that drops the payload when one of its strings is not
\* JSON
processEdgesStateStrict(edgesState, page) ==
  IF \E i \in 1..Len(Val(Spread(edgesState))) :
        /\ Tag(Val(Spread(edgesState))[i][2]) = "str"
        /\ ~JSONParseRevived(Val(Val(Spread(edgesState))[i][2])).ok
  THEN page
  ELSE ProcessEntries(Val(Spread(edgesState)), 1,
                      Page(IF page.table.def THEN page.table ELSE Table(<<>>),
                           page.callbacks, page.cells))

\* a processEdgesState that starts from an empty table
processEdgesStateReplacing(edgesState, page) ==
  ProcessEntries(Val(Spread(edgesState)), 1,
                 Page(Table(<<>>), page.callbacks, page.cells))

\* processEdgesState(edgesState)
processEdgesState(edgesState, page) ==
  ProcessEntries(Val(Spread(edgesState)), 1,
                 Page(IF page.table.def THEN page.table ELSE Table(<<>>),
                      page.callbacks, page.cells))


\* parsed.__edges_state__ of a parsed body: null throws, a value that is not
\* an object has no such property
EdgesStateOf(parsed) ==
  IF Tag(parsed) = "null" THEN [threw |-> TRUE, val |-> Undef]
  ELSE IF IsObj(parsed) /\ HasOwn(parsed, EDGES_STATE)
  THEN [threw |-> FALSE, val |-> GetProp(parsed, EDGES_STATE)]
  ELSE [threw |-> FALSE, val |-> Undef]

\* the try of the patched response.text, parsed being what JSON.parse(text) gave
TextParsed(parsed, page) ==
  IF ~parsed.ok \/ EdgesStateOf(parsed.val).threw
     \/ ~Truthy(EdgesStateOf(parsed.val).val)
  THEN [called |-> FALSE, with |-> Undef, page |-> page]
  ELSE [called |-> TRUE, with |-> EdgesStateOf(parsed.val).val,
        page |-> processEdgesState(EdgesStateOf(parsed.val).val, page)]

\* the patched response.text, once the original gave text
PatchedText(text, page) ==
  IF Includes(text, EDGES_STATE) THEN TextParsed(JSONParse(text), page)
  ELSE [called |-> FALSE, with |-> Undef, page |-> page]

\* the arguments of fetch: input is a string, a Request or a URL; init is an
\* object or is not given
SVELTEKIT_ACTION ==
  <<"x", "-", "s", "v", "e", "l", "t", "e", "k", "i", "t", "-", "a", "c", "t", "i", "o", "n">>
DATA_JSON ==
  <<"_", "_", "d", "a", "t", "a", ".", "j", "s", "o", "n">>
POST == <<"P", "O", "S", "T">>

NoHeaders == [kind |-> "undefined", entries |-> <<>>]
FetchInput(shape, url, headers) == [shape |-> shape, url |-> url, headers |-> headers]
FetchInit(given, marker, headers, method) ==
  [given |-> given, marker |-> marker, headers |-> headers, method |-> method]
NoInit == FetchInit(FALSE, FALSE, NoHeaders, <<>>)

\* a response as the browser has it: body is FALSE when response.body is null
ClientResponse(contentType, body, text) ==
  [contentType |-> contentType, body |-> body, text |-> text]

NoClientResponse == ClientResponse(<<>>, FALSE, <<>>)

\* parseHeaders(headers)
parseHeaders(headers) ==
  IF headers.kind \in {"Headers", "object"} THEN headers.entries ELSE <<>>

\* reqInfo
ReqInfo(input, init) ==
  CASE input.shape = "string" -> [url |-> input.url, headers |-> parseHeaders(init.headers)]
    [] input.shape = "Request" -> [url |-> input.url, headers |-> parseHeaders(input.headers)]
    [] input.shape = "URL" -> [url |-> input.url, headers |-> parseHeaders(init.headers)]
    [] OTHER -> [url |-> <<>>, headers |-> <<>>]

\* isSvelteKitRequest: reading __sveltekit_fetch__ of an init that is not
\* given throws
IsSvelteKitRequest(reqInfo, init) ==
  IF ~init.given THEN [threw |-> TRUE, is |-> FALSE]
  ELSE [threw |-> FALSE,
        is |-> \/ init.marker
               \/ (MapHas(reqInfo.headers, SVELTEKIT_ACTION)
                   /\ Len(MapGet(reqInfo.headers, SVELTEKIT_ACTION)) > 0)
               \/ Includes(reqInfo.url, DATA_JSON)]

\* how a call of the patched fetch ended: it threw, or it returned response
\* with its text and its body's getReader patched or not
Fetched(input, init, threw, original, patchedText, patchedReader) ==
  [input |-> input, init |-> init, threw |-> threw, original |-> original,
   patchedText |-> patchedText, patchedReader |-> patchedReader]

\* interceptEdgesStateFromResponse(response)
Intercepted(input, init, response) ==
  IF ~response.body THEN Fetched(input, init, FALSE, response, FALSE, FALSE)
  ELSE Fetched(input, init, FALSE, response, init.given /\ init.method = POST, TRUE)

\* the patched fetch after isSvelteKitRequest was computed, response being
\* what originalFetch resolves to
FetchWith(is, input, init, response) ==
  IF is.threw THEN Fetched(input, init, TRUE, NoClientResponse, FALSE, FALSE)
  ELSE IF ~is.is THEN Fetched(input, init, FALSE, response, FALSE, FALSE)
  ELSE IF ~Includes(response.contentType, APPLICATION_JSON)
  THEN Fetched(input, init, FALSE, response, FALSE, FALSE)
  ELSE Intercepted(input, init, response)

\* window.fetch(input, init) as the module patches it
PatchedFetch(input, init, response) ==
  FetchWith(IsSvelteKitRequest(ReqInfo(input, init), init), input, init, response)

NoFetch ==
  [count |-> 0, read |-> FALSE, reads |-> 0,
   call |-> Fetched(FetchInput("none", <<>>, NoHeaders), NoInit, FALSE,
                    NoClientResponse, FALSE, FALSE)]

(***************************************************************************)
(* The browser: the reader of a patched response body                      *)
(***************************************************************************)
\* how many chunks a body arrives in at most
MaxReads == 3

\* Math.max(8192, ...)
MIN_MAX_BUFFER == 8192

\* the text the scanner looks for
EDGES_STATE_QUOTED == <<DQ>> \o EDGES_STATE \o <<DQ>>

\* s.indexOf(w, from), positions counted from 1; 0 when w is not found
IndexOf(s, w, from) ==
  IF \E p \in from..(Len(s) - Len(w) + 1) : SubSeq(s, p, p + Len(w) - 1) = w
  THEN CHOOSE p \in from..(Len(s) - Len(w) + 1) :
         /\ SubSeq(s, p, p + Len(w) - 1) = w
         /\ \A q \in from..(p - 1) : SubSeq(s, q, q + Len(w) - 1) # w
  ELSE 0

\* decoder.decode(value, { stream: true }): the bytes of a character that is
\* not complete yet are kept for the next call
StreamDecode(pending, value) ==
  IF Len(pending \o value) > 0 /\ (pending \o value)[Len(pending \o value)] >= 192
  THEN [text |-> TextDecode(SubSeq(pending \o value, 1, Len(pending \o value) - 1)),
        pending |-> <<(pending \o value)[Len(pending \o value)]>>]
  ELSE [text |-> TextDecode(pending \o value), pending |-> <<>>]

\* the scanner: the variables the patched getReader closes over, what
\* processEdgesState was called with by it, and the page
Scanner(pending, buffer, found, depth, capture, calls, page) ==
  [pending |-> pending, buffer |-> buffer, found |-> found, depth |-> depth,
   capture |-> capture, calls |-> calls, page |-> page]

\* if (ch === '{') { if (depth++ === 0) capture = '' }
Opened(sc, ch) ==
  IF ch = "{"
  THEN [sc EXCEPT !.capture = IF sc.depth = 0 THEN <<>> ELSE @, !.depth = @ + 1]
  ELSE sc

\* if (depth > 0) capture += ch
Captured(sc, ch) == IF sc.depth > 0 THEN [sc EXCEPT !.capture = Append(@, ch)] ELSE sc

\* if (ch === '}') depth--
Closed(sc, ch) == IF ch = "}" THEN [sc EXCEPT !.depth = @ - 1] ELSE sc

\* the try at depth 0, parsed being what JSON.parse(capture) gave
ProcessCapture(sc, parsed) ==
  IF parsed.ok
  THEN [sc EXCEPT !.found = TRUE, !.calls = Append(@, parsed.val),
                  !.page = processEdgesState(parsed.val, sc.page)]
  ELSE sc

\* the loop over buffer from index i on
RECURSIVE Scan(_, _, _)
ScanOn(buffer, i, sc) ==
  IF buffer[i] = "}" /\ sc.depth = 0 THEN ProcessCapture(sc, JSONParse(sc.capture))
  ELSE Scan(buffer, i + 1, sc)

Scan(buffer, i, sc) ==
  IF i > Len(buffer) THEN sc
  ELSE ScanOn(buffer, i, Closed(Captured(Opened(sc, buffer[i]), buffer[i]), buffer[i]))

\* buffer = buffer.slice(-MAX_BUFFER / 2) when buffer is longer than MAX_BUFFER
Trimmed(sc) ==
  IF Len(sc.buffer) > Max({MIN_MAX_BUFFER, Len(sc.capture) * 2})
  THEN [sc EXCEPT !.buffer =
          SubSeq(@, Len(@) - (Max({MIN_MAX_BUFFER, Len(sc.capture) * 2}) \div 2) + 1,
                 Len(@))]
  ELSE sc

\* the scan once braceStart is known
ScanFromBrace(sc, braceStart) ==
  IF braceStart # 0 THEN Trimmed(Scan(sc.buffer, braceStart, sc)) ELSE Trimmed(sc)

\* the scan once idx is known
ScanFromKey(sc, idx) ==
  IF idx # 0 THEN ScanFromBrace(sc, IndexOf(sc.buffer, <<"{">>, idx)) ELSE sc

\* the scanner after the text decoded from a chunk was added to buffer
Buffered(sc, decoded) ==
  ScanFromKey([sc EXCEPT !.pending = decoded.pending, !.buffer = @ \o decoded.text],
              IndexOf(sc.buffer \o decoded.text, EDGES_STATE_QUOTED, 1))

\* the patched reader.read after originalRead gave result: the scanner
\* afterwards
ScanResult(sc, result) ==
  IF result.done \/ sc.found THEN sc
  ELSE Buffered(sc, StreamDecode(sc.pending, result.value))

\* a read that hands out nothing once the field has been found
ReadReturnsUntilFound(sc, result) ==
  IF sc.found THEN [done |-> TRUE, value |-> <<>>] ELSE result

\* what the patched reader.read returns, sc being the scanner before the read
ReadReturns(sc, result) == result

\* what originalRead gives: the next n bytes of the body, or done
OriginalRead(body, pos, n) ==
  IF pos >= Len(body) THEN [done |-> TRUE, value |-> <<>>]
  ELSE [done |-> FALSE, value |-> SubSeq(body, pos + 1, pos + n)]

NoReader ==
  [open |-> FALSE, body |-> <<>>, pos |-> 0, reads |-> 0, done |-> FALSE,
   pending |-> <<>>, buffer |-> <<>>, found |-> FALSE, depth |-> 0,
   capture |-> <<>>, originals |-> <<>>, results |-> <<>>]

ClientInit ==
  /\ globalClientCache = <<>>
  /\ clientRuns = [n \in Names |-> 0]
  /\ lastClear = [count |-> 0, browser |-> FALSE, pattern |-> Undef]
  /\ windowState = NoTable
  /\ stateUpdateCallbacks = <<>>
  /\ cellValue = <<>>
  /\ processed = <<>>
  /\ fetched = NoFetch
  /\ reader = NoReader
  /\ clientCalls = 0

PageInit ==
  /\ replacedCells = <<>>
  /\ written = {}
  /\ pageWrites = 0

\* how many writes and deliveries the page sees
MaxWrites == 2

\* the keys of the cells of an instance, in the order they were made
KeysOf(instance) == [i \in 1..Len(instance.cells) |-> instance.cells[i].key]

\* the page may see another write
InWrites == pageWrites < MaxWrites

\* the code of the page may make another call
InPage == clientCalls < MaxCalls

\* the code of the page calls the provider called name
ClientUseProvider(name) ==
  /\ InPage
  /\ \E p \in {ClientProvider(name, clientRuns[name], globalClientCache,
                               Page(windowState, stateUpdateCallbacks, cellValue))} :
        /\ globalClientCache' = p.cache
        /\ clientRuns' = [clientRuns EXCEPT ![name] = IF p.ran THEN @ + 1 ELSE @]
        /\ stateUpdateCallbacks' = p.page.callbacks
        /\ cellValue' = p.page.cells
        /\ replacedCells' =
             IF p.ran
             THEN replacedCells
                    \o ReplacedBy(KeysOf(p.instance),
                                  Page(windowState, stateUpdateCallbacks, cellValue))
             ELSE replacedCells
  /\ clientCalls' = clientCalls + 1
  /\ UNCHANGED <<lastClear, windowState, processed, fetched, reader, written,
                 pageWrites, nonPageVars>>

\* the code of the page calls fetch(input, init) and the server answers
\* response
FetchCall(input, init, response) ==
  /\ InPage
  /\ fetched' = [count |-> fetched.count + 1, read |-> FALSE, reads |-> fetched.reads,
                 call |-> PatchedFetch(input, init, response)]
  /\ clientCalls' = clientCalls + 1
  /\ UNCHANGED <<cacheVars, hydrationVars, reader, nonClientVars>>

\* the code of the page calls text() on the response fetch returned
ReadText ==
  /\ InPage
  /\ fetched.count > 0
  /\ ~fetched.call.threw
  /\ ~fetched.read
  /\ \E t \in {IF fetched.call.patchedText
                THEN PatchedText(fetched.call.original.text,
                                 Page(windowState, stateUpdateCallbacks, cellValue))
                ELSE [called |-> FALSE, with |-> Undef,
                      page |-> Page(windowState, stateUpdateCallbacks, cellValue)]} :
        /\ windowState' = t.page.table
        /\ cellValue' = t.page.cells
        /\ processed' = IF t.called THEN Append(processed, t.with) ELSE processed
  /\ fetched' = [fetched EXCEPT !.read = TRUE, !.reads = @ + 1]
  /\ clientCalls' = clientCalls + 1
  /\ UNCHANGED <<cacheVars, stateUpdateCallbacks, reader, nonClientVars>>

\* the code of the page calls response.body.getReader() on the response fetch
\* returned, its getReader being the patched one
GetReader ==
  /\ InPage
  /\ fetched.count > 0
  /\ ~fetched.call.threw
  /\ fetched.call.patchedReader
  /\ ~fetched.read
  /\ fetched' = [fetched EXCEPT !.read = TRUE]
  /\ reader' = [NoReader EXCEPT !.open = TRUE,
                                !.body = TextEncode(fetched.call.original.text)]
  /\ clientCalls' = clientCalls + 1
  /\ UNCHANGED <<cacheVars, hydrationVars, nonClientVars>>

\* the code of the page calls reader.read(), and the next n bytes of the body
\* have arrived (none when the body has ended)
ReaderRead(n) ==
  /\ reader.open
  /\ ~reader.done
  /\ \/ n = 0 /\ reader.pos = Len(reader.body)
     \/ /\ n > 0
        /\ reader.pos + n <= Len(reader.body)
        /\ reader.reads < MaxReads
        /\ reader.reads = MaxReads - 1 => reader.pos + n = Len(reader.body)
  /\ \E result \in {OriginalRead(reader.body, reader.pos, n)} :
     \E sc \in {ScanResult(Scanner(reader.pending, reader.buffer, reader.found,
                                    reader.depth, reader.capture, processed,
                                    Page(windowState, stateUpdateCallbacks, cellValue)),
                            result)} :
        /\ reader' = [reader EXCEPT
                        !.pos = @ + n, !.reads = @ + 1, !.done = result.done,
                        !.pending = sc.pending, !.buffer = sc.buffer,
                        !.found = sc.found, !.depth = sc.depth,
                        !.capture = sc.capture,
                        !.originals = Append(@, result),
                        !.results =
                          Append(@, ReadReturns(
                                      Scanner(reader.pending, reader.buffer,
                                              reader.found, reader.depth,
                                              reader.capture, processed,
                                              Page(windowState, stateUpdateCallbacks,
                                                   cellValue)),
                                      result))]
        /\ processed' = sc.calls
        /\ windowState' = sc.page.table
        /\ cellValue' = sc.page.cells
  /\ UNCHANGED <<cacheVars, stateUpdateCallbacks, fetched, clientCalls, nonClientVars>>

\* the browser parses the page the server sent and runs the script block
\* serialize put into it, before any code of the page has run: the block makes
\* the table and sets each entry of map, revived, in it
PageScript(map) ==
  /\ clientCalls = 0
  /\ pageWrites = 0
  /\ ~windowState.def
  /\ windowState' = Table(map)
  /\ UNCHANGED <<cacheVars, stateUpdateCallbacks, cellValue, processed, fetched,
                 reader, clientCalls, nonClientVars>>

\* the cell of kind registered under key
HasCell(key, kind) ==
  MapHas(stateUpdateCallbacks, key) /\ MapGet(stateUpdateCallbacks, key) = kind

\* the code of the page calls set(val) on the subscribable cell of key
ClientSet(key, val) ==
  /\ InWrites
  /\ HasCell(key, "state")
  /\ \E page \in {BrowserSet(Page(windowState, stateUpdateCallbacks, cellValue),
                              key, val)} :
        /\ windowState' = page.table
        /\ cellValue' = page.cells
  /\ written' = written \cup {key}
  /\ pageWrites' = pageWrites + 1
  /\ UNCHANGED <<cacheVars, stateUpdateCallbacks, processed, fetched, reader,
                 clientCalls, replacedCells, nonPageVars>>

\* the code of the page calls update(updater) on the subscribable cell of key
ClientUpdate(key) ==
  /\ InWrites
  /\ HasCell(key, "state")
  /\ \E page \in {BrowserUpdate(Page(windowState, stateUpdateCallbacks, cellValue),
                                 key)} :
        /\ windowState' = page.table
        /\ cellValue' = page.cells
  /\ written' = written \cup {key}
  /\ pageWrites' = pageWrites + 1
  /\ UNCHANGED <<cacheVars, stateUpdateCallbacks, processed, fetched, reader,
                 clientCalls, replacedCells, nonPageVars>>

\* the code of the page assigns val to the value of the raw cell of key
ClientRawSet(key, val) ==
  /\ InWrites
  /\ HasCell(key, "rawstate")
  /\ \E page \in {BrowserRawSet(Page(windowState, stateUpdateCallbacks, cellValue),
                                 key, val)} :
        /\ windowState' = page.table
        /\ cellValue' = page.cells
  /\ written' = written \cup {key}
  /\ pageWrites' = pageWrites + 1
  /\ UNCHANGED <<cacheVars, stateUpdateCallbacks, processed, fetched, reader,
                 clientCalls, replacedCells, nonPageVars>>

\* a response of the framework has brought edgesState and the patched text or
\* reader calls processEdgesState(edgesState)
Deliver(edgesState) ==
  /\ InWrites
  /\ \E page \in {processEdgesState(edgesState,
                                    Page(windowState, stateUpdateCallbacks, cellValue))} :
        /\ windowState' = page.table
        /\ cellValue' = page.cells
  /\ processed' = Append(processed, edgesState)
  /\ pageWrites' = pageWrites + 1
  /\ UNCHANGED <<cacheVars, stateUpdateCallbacks, fetched, reader, clientCalls,
                 replacedCells, written, nonPageVars>>

\* the code of the page calls clearCache(pattern)
ClientClearCache(pattern) ==
  /\ InPage
  /\ globalClientCache' = clearCache(TRUE, pattern, globalClientCache)
  /\ lastClear' = [count |-> lastClear.count + 1, browser |-> TRUE, pattern |-> pattern]
  /\ clientCalls' = clientCalls + 1
  /\ UNCHANGED <<clientRuns, hydrationVars, fetched, reader, nonClientVars>>

\* the code of request r calls clearCache(pattern) on the server
ServerClearCache(r, pattern) ==
  /\ InScope(r)
  /\ globalClientCache' = clearCache(FALSE, pattern, globalClientCache)
  /\ lastClear' = [count |-> lastClear.count + 1, browser |-> FALSE, pattern |-> pattern]
  /\ steps' = [steps EXCEPT ![r] = @ + 1]
  /\ UNCHANGED <<currentGetter, storage, nextSymbol, RequestStores, pc, held, seen,
                 lastRead, shadow, touched, runs, returned, outcome, derivedLog,
                 replies,
                 clientRuns, hydrationVars, fetched, reader, clientCalls,
                 codecVars, moduleVars, entryVars, subscriberVars, restVars>>

(***************************************************************************)
(* Keys of stores made without a name (AutoKeyGenerator) and the           *)
(* development check of dev.ts                                             *)
(***************************************************************************)
\* a 32-bit integer in two halves of 16 bits, as the unsigned number
\* hi * 65536 + lo
Half == 65536
Word(hi, lo) == [hi |-> hi, lo |-> lo]

\* hash = (hash << 5) - hash + char; hash = hash & hash
HashStep(hash, char) ==
  Word((31 * hash.hi + ((31 * hash.lo + char) \div Half)) % Half,
       (31 * hash.lo + char) % Half)

RECURSIVE HashFrom(_, _, _)
\* the loop of hash(str) from the i-th character on
HashFrom(str, i, hash) ==
  IF i > Len(str) THEN hash
  ELSE HashFrom(str, i + 1, HashStep(hash, CharCode(str[i])))

\* AutoKeyGenerator.hash(str)
Hash(str) == HashFrom(str, 1, Word(0, 0))

\* Math.abs(hash) of a 32-bit integer: a word with the top bit set is negative
MathAbs(w) ==
  IF w.hi < Half \div 2 THEN w
  ELSE Word((Half - 1 - w.hi + (IF w.lo = 0 THEN 1 ELSE 0)) % Half, (Half - w.lo) % Half)

Digits36 ==
  <<"0", "1", "2", "3", "4", "5", "6", "7", "8", "9", "a", "b", "c", "d", "e", "f",
    "g", "h", "i", "j", "k", "l", "m", "n", "o", "p", "q", "r", "s", "t", "u", "v",
    "w", "x", "y", "z">>

RECURSIVE ToString36(_)
\* n.toString(36) of a non-negative integer
ToString36(w) ==
  IF w.hi = 0 /\ w.lo < 36 THEN <<Digits36[w.lo + 1]>>
  ELSE ToString36(Word(w.hi \div 36, ((w.hi % 36) * Half + w.lo) \div 36))
         \o <<Digits36[(((w.hi % 36) * Half + w.lo) % 36) + 1]>>

\* a factory function: its identity and what generate reads of it
KeyFactory(id, storeKey, displayName, name, source) ==
  [id |-> id, storeKey |-> storeKey, displayName |-> displayName, name |-> name,
   source |-> source]

\* factory.__storeKey__ || factory.displayName || factory.name || factory.toString()
FnIdentifier(factory) ==
  IF factory.storeKey # <<>> THEN factory.storeKey
  ELSE IF factory.displayName # <<>> THEN factory.displayName
  ELSE IF factory.name # <<>> THEN factory.name
  ELSE factory.source

\* `store_${Math.abs(hash).toString(36)}`
BaseKey(fnIdentifier) ==
  <<"s", "t", "o", "r", "e", "_">> \o ToString36(MathAbs(Hash(fnIdentifier)))

\* a final key that is the base key whatever the counters hold
FinalKeyWithoutCount(baseKey, counters) == baseKey

\* finalKey: the base key, with _count when the base key has been given out
FinalKey(baseKey, counters) ==
  IF MapHas(counters, baseKey)
  THEN baseKey \o <<"_">> \o NumText(MapGet(counters, baseKey) + 1)
  ELSE baseKey

\* the counters after a key was made for baseKey
CountersAfter(baseKey, counters) ==
  IF MapHas(counters, baseKey)
  THEN MapSet(counters, baseKey, MapGet(counters, baseKey) + 1)
  ELSE MapSet(counters, baseKey, 0)

\* a key cache nothing was stored in
NoKeyCache == [cache |-> <<>>, counters |-> <<>>]

\* generate(factory) once cache and counters are chosen: made is FALSE when the
\* key came from the cache
GenerateIn(factory, c) ==
  IF MapHas(c.cache, factory.id)
  THEN [made |-> FALSE, key |-> MapGet(c.cache, factory.id), into |-> c]
  ELSE [made |-> TRUE,
        key |-> FinalKey(BaseKey(FnIdentifier(factory)), c.counters),
        into |-> [cache |-> MapSet(c.cache, factory.id,
                                   FinalKey(BaseKey(FnIdentifier(factory)), c.counters)),
                  counters |-> CountersAfter(BaseKey(FnIdentifier(factory)), c.counters)]]

\* the key cache generate uses when called in scope caller: its own in the
\* browser and when RequestContext.current() throws, else the one in the data
\* of the request's context
KeyCacheFor(caller) ==
  IF caller = Browser THEN Browser
  ELSE IF Current(caller).threw THEN 0
  ELSE Current(caller).ctx.symbol

\* the process whose modules the code in scope caller runs in
ProcessOf(caller) == IF caller = Browser THEN Browser ELSE Outside

\* DevTools.validateFactoryUniqueness(factory, key): the warnings after it
validateFactoryUniqueness(factory, key, isDev, seenBefore, log) ==
  IF ~isDev THEN log
  ELSE IF factory.id \in seenBefore THEN Append(log, [factory |-> factory.id, key |-> key])
  ELSE log

\* seenFactories after validateFactoryUniqueness(factory, key)
SeenAfter(factory, isDev, seenBefore) ==
  IF ~isDev THEN seenBefore ELSE seenBefore \cup {factory.id}

KeyInit ==
  /\ keyCaches = <<>>
  /\ seenFactories = [p \in {Outside, Browser} |-> {}]
  /\ warnings = <<>>
  /\ keyLog = {}
  /\ generates = 0

\* how often generate is called
MaxGenerates == 4

\* createStore(factory) or createPresenter(factory) is called in scope caller and
\* calls AutoKeyGenerator.generate(factory)
Generate(caller, factory) ==
  /\ generates < MaxGenerates
  /\ caller \in Reqs => pc[caller] = "callback"
  /\ \E g \in {GenerateIn(factory,
                           IF MapHas(keyCaches, KeyCacheFor(caller))
                           THEN MapGet(keyCaches, KeyCacheFor(caller))
                           ELSE NoKeyCache)} :
        /\ keyCaches' = MapSet(keyCaches, KeyCacheFor(caller), g.into)
        /\ keyLog' = keyLog \cup {[cache |-> KeyCacheFor(caller), factory |-> factory.id,
                                   key |-> g.key, made |-> g.made,
                                   base |-> BaseKey(FnIdentifier(factory)),
                                   process |-> ProcessOf(caller)]}
        /\ warnings' = IF g.made
                       THEN validateFactoryUniqueness(factory, g.key, dev,
                                                      seenFactories[ProcessOf(caller)],
                                                      warnings)
                       ELSE warnings
        /\ seenFactories' =
             IF g.made
             THEN [seenFactories EXCEPT ![ProcessOf(caller)] = SeenAfter(factory, dev, @)]
             ELSE seenFactories
  /\ generates' = generates + 1
  /\ UNCHANGED <<dev, nonKeyVars>>

(***************************************************************************)
(* The document (serialize)                                                *)
(***************************************************************************)
BODY_CLOSE == <<"<", "/", "b", "o", "d", "y", ">">>

RECURSIVE GetSubstitution(_, _, _, _, _)
RECURSIVE GetSubstitutionAt(_, _, _, _, _)
\* what the two characters $c of a replacement string stand for, and how many
\* characters of it they take: $$ is $, $& the match, $` the text before it,
\* $' the text after it, any other $ itself
Substituted(c, matched, head, tail) ==
  IF c = "$" THEN [text |-> <<"$">>, taken |-> 2]
  ELSE IF c = "&" THEN [text |-> matched, taken |-> 2]
  ELSE IF c = "U+0060" THEN [text |-> head, taken |-> 2]
  ELSE IF c = SQ THEN [text |-> tail, taken |-> 2]
  ELSE [text |-> <<"$">>, taken |-> 1]

\* the same from the $ at p on
GetSubstitutionAt(replacement, p, matched, head, tail) ==
  Substituted(At(replacement, p + 1), matched, head, tail).text
    \o GetSubstitution(replacement,
                       p + Substituted(At(replacement, p + 1), matched, head, tail).taken,
                       matched, head, tail)

\* the text a replacement string stands for, from its i-th character on, when
\* the pattern is a string: the text up to the next $ as it is, then what the
\* $ stands for
GetSubstitution(replacement, i, matched, head, tail) ==
  IF IndexOf(replacement, <<"$">>, i) = 0 THEN SubSeq(replacement, i, Len(replacement))
  ELSE SubSeq(replacement, i, IndexOf(replacement, <<"$">>, i) - 1)
         \o GetSubstitutionAt(replacement, IndexOf(replacement, <<"$">>, i),
                               matched, head, tail)

\* str.replace(pattern, replacement), pattern found at position
ReplaceAt(str, position, pattern, replacement) ==
  SubSeq(str, 1, position - 1)
    \o GetSubstitution(replacement, 1, pattern, SubSeq(str, 1, position - 1),
                       SubSeq(str, position + Len(pattern), Len(str)))
    \o SubSeq(str, position + Len(pattern), Len(str))

\* str.replace(pattern, replacement) with a string as the pattern: the first
\* occurrence is replaced
StringReplace(str, pattern, replacement) ==
  IF IndexOf(str, pattern, 1) = 0 THEN str
  ELSE ReplaceAt(str, IndexOf(str, pattern, 1), pattern, replacement)

\* serialize(html, options) once stateSerialize has returned serialized
SerializeWith(html, serialized) ==
  IF serialized = <<>> THEN html
  ELSE StringReplace(html, BODY_CLOSE, serialized \o BODY_CLOSE)

\* serialize(html, options), map being the state map of the request
serialize(html, map, options) ==
  IF ~Truthy(html) THEN Val(Nullish(html, Str(<<>>)))
  ELSE SerializeWith(Val(html), stateSerialize(map, options))

DocumentInit ==
  document = [called |-> FALSE, html |-> Undef, state |-> <<>>, out |-> <<>>]

\* the callback of the request calls serialize(html, { compress: c,
\* compressionThreshold: t })
Serialize(html, c, t) ==
  /\ codecPhase = "server"
  /\ codecOptions' = [compress |-> c, threshold |-> t]
  /\ codecScript' = IF Truthy(html) THEN stateSerialize(codecMap, codecOptions')
                    ELSE codecScript
  /\ codecPhase' = "serialized"
  /\ document' = [called |-> TRUE, html |-> html, state |-> codecMap,
                  out |-> serialize(html, codecMap, codecOptions')]
  /\ UNCHANGED <<codecMap, codecWindow, serverVars, moduleVars, entryVars, clientVars,
                 subscriberVars, derivationVars, pageVars, keyVars, batchVars,
                 chunkVars>>

(***************************************************************************)
(* Batched updates (BatchManager)                                          *)
(***************************************************************************)
\* queueUpdate called without a callback
NoCallback == 0

MaxBatchOps == 4

\* a BatchUpdate
BatchUpdate(key, value, callback) == [key |-> key, value |-> value, callback |-> callback]

\* a queue in which the first update of a key stays
QueuedKeepingFirst(pending, key, value, callback) ==
  IF MapHas(pending, key) THEN pending
  ELSE Append(pending, <<key, BatchUpdate(key, value, callback)>>)

\* a queueUpdate that calls the callback at once outside the browser only
ImmediateOnServerOnly(isBrowser, isScheduled) == ~isBrowser

\* a flush that hands the work to queueMicrotask also when nothing is pending
FlushNeverEmpty(pending) == FALSE

\* this.pendingUpdates.set(key, { key, value, callback })
Queued(pending, key, value, callback) ==
  MapSet(pending, key, BatchUpdate(key, value, callback))

\* !browser || !this.scheduled
Immediate(isBrowser, isScheduled) == ~isBrowser \/ ~isScheduled

\* this.pendingUpdates.size === 0
FlushEmpty(pending) == Len(pending) = 0

\* Array.from(this.pendingUpdates.values())
Updates(pending) == [i \in 1..Len(pending) |-> pending[i][2]]

\* update.callback is defined
HasCallback(update) == update.callback # NoCallback

\* the calls the loop over updates makes in flush number flush
Applications(updates, flush) ==
  [i \in 1..Len(SelectSeq(updates, HasCallback)) |->
     [key |-> SelectSeq(updates, HasCallback)[i].key,
      value |-> SelectSeq(updates, HasCallback)[i].value,
      callback |-> SelectSeq(updates, HasCallback)[i].callback,
      flush |-> flush]]

\* the calls the loop over batchCallbacks makes
Completions(callbacks, flush, ended, done) ==
  [i \in 1..Len(callbacks) |->
     [callback |-> callbacks[i], flush |-> flush, ended |-> ended, applied |-> done]]

\* this.batchCallbacks.add(callback)
SetAdd(set, x) == IF \E i \in 1..Len(set) : set[i] = x THEN set ELSE Append(set, x)

\* how often batch, queueUpdate and onBatchComplete have been called
BatchOps == begun + Len(queuedLog) + Len(registered)

BatchInit ==
  /\ pendingUpdates = <<>>
  /\ scheduled = FALSE
  /\ batchCallbacks = <<>>
  /\ microtasks = 0
  /\ running = <<>>
  /\ queuedLog = <<>>
  /\ applied = <<>>
  /\ registered = <<>>
  /\ completed = <<>>
  /\ finished = <<>>
  /\ flushes = 0
  /\ begun = 0

\* batch(fn) up to the call of fn
BatchBegin ==
  /\ BatchOps < MaxBatchOps
  /\ begun' = begun + 1
  /\ running' = Append(running, IF ~browser THEN "server"
                                ELSE IF ~scheduled THEN "start" ELSE "joined")
  /\ scheduled' = IF browser THEN TRUE ELSE scheduled
  /\ UNCHANGED <<browser, pendingUpdates, batchCallbacks, microtasks, queuedLog,
                 applied, registered, completed, finished, flushes, nonBatchVars>>

\* queueUpdate(key, value, callback)
QueueUpdate(key, value, callback) ==
  /\ BatchOps < MaxBatchOps
  /\ pendingUpdates' = IF Immediate(browser, scheduled) THEN pendingUpdates
                       ELSE Queued(pendingUpdates, key, value, callback)
  /\ applied' = IF Immediate(browser, scheduled) /\ callback # NoCallback
                THEN Append(applied, [key |-> key, value |-> value,
                                      callback |-> callback, flush |-> 0])
                ELSE applied
  /\ queuedLog' = Append(queuedLog,
                         [key |-> key, value |-> value, callback |-> callback,
                          phase |-> flushes, depth |-> Len(running),
                          immediate |-> Immediate(browser, scheduled)])
  /\ UNCHANGED <<browser, scheduled, batchCallbacks, microtasks, running, registered,
                 completed, finished, flushes, begun, nonBatchVars>>

\* onBatchComplete(callback)
OnBatchComplete(callback) ==
  /\ BatchOps < MaxBatchOps
  /\ batchCallbacks' = SetAdd(batchCallbacks, callback)
  /\ registered' = Append(registered,
                          [callback |-> callback, phase |-> flushes,
                           batch |-> IF running # <<>> /\ running[1] = "start"
                                     THEN Len(finished) + 1 ELSE 0])
  /\ UNCHANGED <<browser, pendingUpdates, scheduled, microtasks, running, queuedLog,
                 applied, completed, finished, flushes, begun, nonBatchVars>>

\* fn returns to batch: the finally block, with flush() up to queueMicrotask
BatchEnd ==
  /\ running # <<>>
  /\ running' = SubSeq(running, 1, Len(running) - 1)
  /\ scheduled' = IF running[Len(running)] = "start" /\ FlushEmpty(pendingUpdates)
                  THEN FALSE ELSE scheduled
  /\ microtasks' = IF running[Len(running)] = "start" /\ ~FlushEmpty(pendingUpdates)
                   THEN microtasks + 1 ELSE microtasks
  /\ finished' = IF running[Len(running)] # "start" THEN finished
                 ELSE Append(finished,
                             [flush |-> IF FlushEmpty(pendingUpdates) THEN 0
                                        ELSE flushes + 1])
  /\ UNCHANGED <<browser, pendingUpdates, batchCallbacks, queuedLog, applied,
                 registered, completed, flushes, begun, nonBatchVars>>

\* the function flush handed to queueMicrotask runs, once no code is running
RunMicrotask ==
  /\ microtasks > 0
  /\ running = <<>>
  /\ microtasks' = microtasks - 1
  /\ pendingUpdates' = <<>>
  /\ scheduled' = FALSE
  /\ flushes' = flushes + 1
  /\ applied' = applied \o Applications(Updates(pendingUpdates), flushes + 1)
  /\ completed' = completed \o Completions(batchCallbacks, flushes + 1,
                                            Len(finished), Len(applied'))
  /\ batchCallbacks' = <<>>
  /\ UNCHANGED <<browser, running, queuedLog, registered, finished, begun,
                 nonBatchVars>>

(***************************************************************************)
(* The specifications                                                      *)
(***************************************************************************)
vars ==
  <<codecVars, serverVars, moduleVars, entryVars, clientVars, subscriberVars, restVars>>

\* the state after the modules are loaded, whatever the build is
Loaded ==
  /\ CodecInit /\ ServerInit /\ ModuleInit /\ EntryInit /\ ClientInit
  /\ SubscriberInit /\ DerivationInit /\ PageInit /\ KeyInit /\ DocumentInit
  /\ BatchInit /\ ChunkInit

\* a development build
Init == Loaded /\ dev = TRUE /\ browser = TRUE

\* a development build or a production build
InitOfAnyBuild == Loaded /\ dev \in BOOLEAN /\ browser = TRUE

\* a development build, in a page or on the server
InitOfAnySide == Loaded /\ dev = TRUE /\ browser \in BOOLEAN

\* the responses callback returns in the model
JsonBodies ==
  {<<"{", DQ, "o", "k", DQ, ":", "t", "r", "u", "e", "}">>,
   <<"{", DQ, "n", DQ, ":", DQ, EAcute, DQ, "}">>,
   <<"n", "o", "t", "-", "j", "s", "o", "n", "{">>,
   <<"{", "}">>}

Responses ==
  {Response(st, APPLICATION_JSON, <<>>, b) : st \in {200, 500}, b \in JsonBodies}
    \cup {Response(200, JSON_UTF8, NumText(11), <<"{", DQ, "o", "k", DQ, ":", "t", "r", "u", "e", "}">>),
          Response(200, TEXT_HTML, <<>>, <<"<", "p", ">", "h", "i", "<", "/", "p", ">">>)}

PlainResponses == {Response(200, TEXT_HTML, <<>>, <<"<", "p", ">", "h", "i", "<", "/", "p", ">">>)}

\* the values the code of a request stores in the model of responses
HandleValues == {Str(<<EAcute, DQ>>), Undef, Num(7)}

\* Spec: requests handled concurrently, and code at module level
Next ==
  \/ \E r \in Reqs : HandleStart(r)
  \/ \E r \in Reqs : ReadContext(r)
  \/ \E r \in Reqs : UseProvider(r, CounterStore)
  \/ \E r \in Reqs : WriteState(r, 1, SetValue(r))
  \/ \E r \in Reqs : UpdateState(r, 1)
  \/ \E r \in Reqs : ReadState(r, 1)
  \/ \E r \in Reqs : WriteRaw(r, 3, SetValue(r))
  \/ \E r \in Reqs : ReadRaw(r, 3)
  \/ \E r \in Reqs, response \in PlainResponses : HandleFinish(r, response)
  \/ OutsideCreateState
  \/ OutsideCreateRawState

Spec == Init /\ [][Next]_vars

\* SpecStore: the providers and cells of one request
StoreNext ==
  \/ HandleStart(1)
  \/ \E name \in Names : UseProvider(1, name)
  \/ \E i \in {1, 2} : WriteState(1, i, SetValue(i))
  \/ \E i \in {1, 2} : UpdateState(1, i)
  \/ \E i \in {1, 2} : ReadState(1, i)
  \/ SubscribeDerived(1)
  \/ Unsubscribe(1)
  \/ \E response \in PlainResponses : HandleFinish(1, response)

SpecStore == Init /\ [][StoreNext]_vars

\* SpecShare: two requests use a store whose cells start from lists defined at
\* module level
ShareNext ==
  \/ \E r \in Reqs : HandleStart(r)
  \/ \E r \in Reqs : UseProvider(r, ListStore)
  \/ \E r \in Reqs, i \in {1, 2} : PushInPlace(r, i)
  \/ \E r \in Reqs, response \in PlainResponses : HandleFinish(r, response)

SpecShare == Init /\ [][ShareNext]_vars

\* SpecHandle: one request stores values and answers
HandleNext ==
  \/ HandleStart(1)
  \/ UseProvider(1, CounterStore)
  \/ \E val \in HandleValues : WriteState(1, 1, val)
  \/ \E val \in HandleValues : WriteRaw(1, 3, val)
  \/ \E response \in Responses : HandleFinish(1, response)

SpecHandle == Init /\ [][HandleNext]_vars

\* SpecEntry: one request enters edgesHandle with or without the flag, on the
\* probe's path or another, and answers JSON of every shape
JsonValueBodies ==
  {<<"{", DQ, "o", "k", DQ, ":", "t", "r", "u", "e", "}">>,
   <<"[", "1", ",", "2", "]">>,
   <<DQ, "h", "i", DQ>>,
   <<"5">>,
   <<"t", "r", "u", "e">>,
   <<"n", "u", "l", "l">>}

JsonValueResponses == {Response(200, APPLICATION_JSON, <<>>, b) : b \in JsonValueBodies}

EntryNext ==
  \/ \E silentChromeDevtools \in BOOLEAN, pathname \in Paths :
       HandleEnter(1, silentChromeDevtools, pathname)
  \/ UseProvider(1, CounterStore)
  \/ WriteState(1, 1, SetValue(1))
  \/ \E response \in JsonValueResponses : HandleFinish(1, response)

SpecEntry == Init /\ [][EntryNext]_vars

\* SpecCache: the page calls providers and clears the cache; a request on the
\* server does the same
Patterns == {Undef, Str(<<>>), Str(<<"n">>), Str(<<"l", "s">>)}

CacheNext ==
  \/ \E name \in Names : ClientUseProvider(name)
  \/ \E pattern \in Patterns : ClientClearCache(pattern)
  \/ HandleStart(1)
  \/ UseProvider(1, CounterStore)
  \/ \E pattern \in Patterns : ServerClearCache(1, pattern)

SpecCache == Init /\ [][CacheNext]_vars

\* SpecFetch: the page calls the counter store, fetches and reads the text of
\* the response
API_URL == <<"/", "a", "p", "i", "/", "t", "e", "s", "t">>
DATA_URL == <<"/", "b", "l", "o", "g", "/", "_", "_", "d", "a", "t", "a", ".", "j", "s", "o", "n">>
ActionHeaders(kind) ==
  [kind |-> kind, entries |-> << <<SVELTEKIT_ACTION, <<"t", "r", "u", "e">> >> >>]

FetchInputs ==
  {FetchInput("string", API_URL, NoHeaders),
   FetchInput("string", DATA_URL, NoHeaders),
   FetchInput("Request", API_URL, ActionHeaders("Headers")),
   FetchInput("Request", API_URL, [kind |-> "Headers", entries |-> <<>>]),
   FetchInput("URL", API_URL, NoHeaders)}

FetchInits ==
  {NoInit,
   FetchInit(TRUE, FALSE, NoHeaders, <<>>),
   FetchInit(TRUE, TRUE, NoHeaders, <<>>),
   FetchInit(TRUE, FALSE, ActionHeaders("object"), POST),
   FetchInit(TRUE, TRUE, NoHeaders, POST)}

\* the keys of the cells of the counter store
CounterKey(i) ==
  StateKey(CounterStore, KindText(FactoryOf(CounterStore).states[i].kind), i - 1)

\* bodies as edgesHandle sends them: with the state of the request, with an
\* entry whose text is not JSON, cut short, and without state
BodyOf(stateObj) ==
  JSONStringify(Obj(<< <<<<"o", "k">>, Bool(TRUE)>>, <<EDGES_STATE, stateObj>> >>), "none")
GoodBody ==
  BodyOf(Obj(<< <<CounterKey(1), Str(<<"7">>)>>,
                <<CounterKey(3), Str(JSONStringify(Undef, "handle"))>> >>))
BadEntryBody ==
  BodyOf(Obj(<< <<CounterKey(1), Str(<<"7">>)>>,
                <<CounterKey(2), Str(<<"{", "o">>)>> >>))
CutBody == SubSeq(GoodBody, 1, Len(GoodBody) - 2)
PlainBody == <<"{", DQ, "o", "k", DQ, ":", "t", "r", "u", "e", "}">>

ClientResponses ==
  {ClientResponse(APPLICATION_JSON, TRUE, b) :
     b \in {GoodBody, BadEntryBody, CutBody, PlainBody}}
    \cup {ClientResponse(APPLICATION_JSON, FALSE, <<>>),
          ClientResponse(TEXT_HTML, TRUE, <<"<", "p", ">", "h", "i", "<", "/", "p", ">">>)}

FetchNext ==
  \/ ClientUseProvider(CounterStore)
  \/ \E input \in FetchInputs, init \in FetchInits, response \in ClientResponses :
       FetchCall(input, init, response)
  \/ ReadText

SpecFetch == Init /\ [][FetchNext]_vars

\* SpecReader: the page fetches its data and reads the body chunk by chunk
StreamBody ==
  <<"{", DQ, "n", DQ, ":", DQ>> \o <<EAcute>> \o <<DQ, ",", DQ, "_", "_", "e",
  "d", "g", "e", "s", "_", "s", "t", "a", "t", "e", "_", "_", DQ, ":", "{",
  DQ, "k", DQ, ":", DQ, "1", DQ, "}", "}">>
UnbalancedBody ==
  <<"{", DQ, "_", "_", "e", "d", "g", "e", "s", "_", "s", "t", "a", "t", "e",
  "_", "_", DQ, ":", "{", DQ, "k", DQ, ":", DQ, BS, DQ, "}", BS, DQ, DQ, "}",
  "}">>

ReaderResponses ==
  {ClientResponse(APPLICATION_JSON, TRUE, b) : b \in {StreamBody, UnbalancedBody, PlainBody}}

\* the sizes a chunk may have: up to the whole of the longest body; 0 stands
\* for the end of the body
ChunkSizes == 0..Max({Len(TextEncode(response.text)) : response \in ReaderResponses})

ReaderNext ==
  \/ \E response \in ReaderResponses :
       FetchCall(FetchInput("string", DATA_URL, NoHeaders),
                 FetchInit(TRUE, FALSE, NoHeaders, <<>>), response)
  \/ GetReader
  \/ \E n \in ChunkSizes : ReaderRead(n)

SpecReader == Init /\ [][ReaderNext]_vars

\* SpecRun: two requests and the page run the factories of the stores; the
\* page clears its cache and runs them again
RunNames == {CounterStore, ListStore}

RunNext ==
  \/ \E r \in Reqs : HandleStart(r)
  \/ \E r \in Reqs, name \in RunNames : UseProvider(r, name)
  \/ \E name \in RunNames : ClientUseProvider(name)
  \/ ClientClearCache(Undef)

SpecRun == Init /\ [][RunNext]_vars

\* SpecKeys: stores are made without a name at module level on the server, in
\* the scope of a request and in the page, in a development and in a production
\* build; the first factory is a function
\* called Aa, the second has Aa as its display name, the third has an explicit
\* key whose hash is that of Aa, the fourth is an arrow function without a
\* name whose hash is negative
KeyFactories ==
  {KeyFactory(1, <<>>, <<>>, <<"A", "a">>, <<"f", "1">>),
   KeyFactory(2, <<>>, <<"A", "a">>, <<"g">>, <<"f", "2">>),
   KeyFactory(3, <<"B", "B">>, <<"A", "a">>, <<"h">>, <<"f", "3">>),
   KeyFactory(4, <<>>, <<>>, <<>>, <<"(", "d", ")", "=", ">", "(", "{", "}", ")">>)}

KeysNext ==
  \/ HandleStart(1)
  \/ \E caller \in {1, Outside, Browser}, factory \in KeyFactories :
        Generate(caller, factory)

SpecKeys == InitOfAnyBuild /\ [][KeysNext]_vars

\* SpecDocument: the cells of a request store strings, some of them with a
\* dollar sign, and its callback passes the page to serialize
DocumentValues ==
  {Num(5), Str(<<"a">>), Str(<<"$", "&">>), Str(<<"$", "$">>), Str(<<"$", SQ>>),
   Str(<<"$", "U+0060">>), Str(<<"$", "1">>), Str(<<"$">>)}

Htmls ==
  {Undef, Null, Str(<<>>),
   Str(<<"<", "p", ">", "h", "i", "<", "/", "p", ">">>),
   Str(<<"<", "b", "o", "d", "y", ">", "h", "i">> \o BODY_CLOSE),
   Str(<<"<", "b", "o", "d", "y", ">", "h", "i">> \o BODY_CLOSE
         \o <<"<", "/", "h", "t", "m", "l", ">">>)}

DocumentNext ==
  \/ \E x \in DocumentValues : CodecSet(UserKey, x)
  \/ \E x \in DocumentValues : CodecSet(CountKey, x)
  \/ \E html \in Htmls, c \in {Undef, Bool(TRUE)}, t \in {Undef, Num(0)} :
        Serialize(html, c, t)

SpecDocument == Init /\ [][DocumentNext]_vars

\* SpecLiteral: the cells of stores called k, it's and a\b hold numbers and
\* strings with quotes, backslashes and a closing script tag; the state is
\* serialized, as literals or encoded, and the browser runs the block
LiteralKeys ==
  {StateKey(<<"k">>, KIND_STATE, 0),
   StateKey(<<"i", "t", SQ, "s">>, KIND_STATE, 0),
   StateKey(<<"a", BS, "b">>, KIND_RAWSTATE, 0)}

LiteralValues ==
  {Num(5), Undef, Str(<<SQ>>), Str(<<"i", SQ, BS, DQ>>),
   Str(<<"<", "/", "s", "c", "r", "i", "p", "t", ">">>)}

LiteralNext ==
  \/ \E k \in LiteralKeys, x \in LiteralValues : CodecSet(k, x)
  \/ \E c \in {Undef, Bool(TRUE)} : CodecSerialize(c, Num(0))
  \/ CodecExec

SpecLiteral == Init /\ [][LiteralNext]_vars

\* SpecLastWrite: two requests whose continuations interleave store values
\* under the same keys, one write after another, and answer JSON
LastWriteValues == {Num(7), Str(<<"a">>)}

LastWriteResponses ==
  {Response(200, APPLICATION_JSON, <<>>, <<"{", DQ, "o", "k", DQ, ":", "t", "r", "u", "e", "}">>)}

LastWriteNext ==
  \/ \E r \in Reqs : HandleStart(r)
  \/ \E r \in Reqs : UseProvider(r, CounterStore)
  \/ \E r \in Reqs, val \in LastWriteValues : WriteState(r, 1, val)
  \/ \E r \in Reqs : UpdateState(r, 1)
  \/ \E r \in Reqs, val \in LastWriteValues : WriteRaw(r, 3, val)
  \/ \E r \in Reqs, response \in LastWriteResponses : HandleFinish(r, response)

SpecLastWrite == Init /\ [][LastWriteNext]_vars

\* SpecBatch: code of a page or of the server calls batch, queueUpdate and
\* onBatchComplete; a function passed to batch returns, and a microtask runs once
\* no code is running
BatchKeys == {"a", "b"}
CompleteCallbacks == {1, 2}

\* the updates the code queues: a key twice with two values, another key, and
\* an update without a callback
QueuedUpdates ==
  {BatchUpdate("a", 1, 1), BatchUpdate("a", 2, 1), BatchUpdate("b", 1, 2),
   BatchUpdate("a", 2, NoCallback)}

BatchNext ==
  \/ BatchBegin
  \/ \E update \in QueuedUpdates :
        QueueUpdate(update.key, update.value, update.callback)
  \/ \E callback \in CompleteCallbacks : OnBatchComplete(callback)
  \/ BatchEnd
  \/ RunMicrotask

SpecBatch == InitOfAnySide /\ [][BatchNext]_vars

\* a function passed to batch returns, and the event loop runs every microtask
SpecBatchFair == SpecBatch /\ WF_vars(BatchEnd) /\ WF_vars(RunMicrotask)

\* SpecOutside: two requests call providers, and code at module level calls the
\* same providers before, between and after them
OutsideNames == {CounterStore, NullPresenter}

OutsideNext ==
  \/ \E r \in Reqs : HandleStart(r)
  \/ \E r \in Reqs, name \in OutsideNames : UseProvider(r, name)
  \/ \E name \in OutsideNames : OutsideUseProvider(name)
  \/ \E r \in Reqs, response \in PlainResponses : HandleFinish(r, response)

SpecOutside == Init /\ [][OutsideNext]_vars

\* SpecChunks: a request stores values, serializes its state for page chunks,
\* with and without compression, and answers
ChunkResponses ==
  {Response(200, APPLICATION_JSON, <<>>, <<"{", DQ, "o", "k", DQ, ":", "t", "r", "u", "e", "}">>),
   Response(200, TEXT_HTML, <<>>, <<"<", "p", ">", "h", "i", "<", "/", "p", ">">>)}

ChunksNext ==
  \/ HandleStart(1)
  \/ UseProvider(1, CounterStore)
  \/ \E val \in HandleValues : WriteState(1, 1, val)
  \/ \E c \in {Undef, Bool(TRUE)} : SerializeChunk(1, c, Num(0))
  \/ \E response \in ChunkResponses : HandleFinish(1, response)

SpecChunks == Init /\ [][ChunksNext]_vars

\* SpecDerived: code on the server subscribes to derived cells of one to three
\* sources, each of which passes one or two values to its subscriber while it
\* is being subscribed to
Emissions ==
  {<<Num(1)>>, <<Num(2)>>, <<Num(3)>>, <<Num(1), Num(2)>>, <<Num(2), Num(1)>>}

MaxSources == 3

SourceEmits ==
  UNION {[1..n -> Emissions] : n \in 1..MaxSources}

DerivedNext == \E emits \in SourceEmits : DeriveFrom(emits)

SpecDerived == Init /\ [][DerivedNext]_vars

\* SpecPage: the browser runs the script block of the page, the page's code
\* calls the counter store, writes to its cells, clears the cache and calls
\* the store again, and state arrives with the framework's responses
RehydratedValues == {Undef, Null, Num(0), Bool(FALSE), Str(<<>>), Num(7)}

RehydratedMaps ==
  {<< <<CounterKey(1), v>>, <<CounterKey(3), v>> >> : v \in RehydratedValues}

Delivered ==
  {Obj(<< <<CounterKey(1), Str(<<"8">>)>>, <<CounterKey(3), Str(<<"9">>)>> >>)}

PageNext ==
  \/ \E map \in RehydratedMaps : PageScript(map)
  \/ ClientUseProvider(CounterStore)
  \/ ClientClearCache(Undef)
  \/ \E i \in {1, 2} : ClientSet(CounterKey(i), Num(5))
  \/ ClientUpdate(CounterKey(1))
  \/ ClientRawSet(CounterKey(3), Num(6))
  \/ \E edgesState \in Delivered : Deliver(edgesState)

SpecPage == Init /\ [][PageNext]_vars

\* SpecFrame: the page has a table and cells, and payloads arrive that hold
\* some of its keys, all of them, a key no cell has, or none
OtherKey == StateKey(<<"z">>, KIND_STATE, 0)

PartialPayloads ==
  {Obj(<< <<CounterKey(1), Str(<<"8">>)>> >>),
   Obj(<< <<CounterKey(3), Str(<<"9">>)>> >>),
   Obj(<< <<CounterKey(1), Str(<<"8">>)>>, <<CounterKey(3), Str(<<"9">>)>> >>),
   Obj(<< <<OtherKey, Str(<<"1">>)>> >>),
   Obj(<<>>)}

FrameNext ==
  \/ \E map \in RehydratedMaps : PageScript(map)
  \/ ClientUseProvider(CounterStore)
  \/ \E i \in {1, 2} : ClientSet(CounterKey(i), Num(5))
  \/ ClientRawSet(CounterKey(3), Num(6))
  \/ \E edgesState \in PartialPayloads : Deliver(edgesState)

SpecFrame == Init /\ [][FrameNext]_vars

SpecCodec == Init /\ [][CodecNext]_vars

(***************************************************************************)
(* Claims on the encoding (SpecCodec)                                      *)
(***************************************************************************)
ElemOf(x) == IF x = Hole THEN Undef ELSE x
ObjKeys(o) == {Val(o)[i][1] : i \in 1..Len(Val(o))}

RECURSIVE DeepEqual(_, _)
\* deep equality: the same own keys with deeply equal values; an array index
\* reads as undefined whether it is a hole or holds undefined
DeepEqual(x, y) ==
  CASE IsObj(x) /\ IsObj(y) ->
         /\ ObjKeys(x) = ObjKeys(y)
         /\ \A k \in ObjKeys(x) : DeepEqual(GetProp(x, k), GetProp(y, k))
    [] IsArr(x) /\ IsArr(y) ->
         /\ Len(Val(x)) = Len(Val(y))
         /\ \A i \in 1..Len(Val(x)) : DeepEqual(ElemOf(Val(x)[i]), ElemOf(Val(y)[i]))
    [] OTHER -> x = y

\* C4: decoding the server's encoding of a state value yields a value deeply
\* equal to it, on the raw-literal path and on the compressed path
CE_C4_RoundTrip ==
  codecPhase = "executed" =>
    \A i \in 1..Len(codecMap) :
      /\ MapHas(codecWindow.map, codecMap[i][1])
      /\ DeepEqual(codecMap[i][2], MapGet(codecWindow.map, codecMap[i][1]))

\* absent, null or undefined
Presence(o, k) ==
  IF ~HasOwn(o, k) THEN "absent"
  ELSE IF GetProp(o, k) = Undef THEN "undefined"
  ELSE IF GetProp(o, k) = Null THEN "null"
  ELSE "value"

RECURSIVE KeepsPresence(_, _)
KeepsPresence(orig, dec) ==
  CASE IsObj(orig) ->
         /\ IsObj(dec)
         /\ \A k \in ObjKeys(orig) \cup ObjKeys(dec) :
              /\ Presence(dec, k) = Presence(orig, k)
              /\ KeepsPresence(GetProp(orig, k), GetProp(dec, k))
    [] IsArr(orig) ->
         /\ IsArr(dec)
         /\ Len(Val(dec)) = Len(Val(orig))
         /\ \A i \in 1..Len(Val(orig)) : KeepsPresence(ElemOf(Val(orig)[i]), ElemOf(Val(dec)[i]))
    [] OTHER -> TRUE

\* C5: after the round trip a property that held undefined is still an own
\* property holding undefined and one that held null still holds null: at every
\* depth absent, null and undefined stay apart
CE_C5_PresenceKept ==
  codecPhase = "executed" =>
    \A i \in 1..Len(codecMap) :
      KeepsPresence(codecMap[i][2], MapGet(codecWindow.map, codecMap[i][1]))

\* C9: an entry is emitted as a decode-and-parse block exactly when compress is
\* on and its encoded length is greater than the threshold (1024 by default),
\* and as a raw literal otherwise
C9_CompressIffAboveThreshold ==
  (codecPhase # "server" /\ Len(codecMap) > 0) =>
    LET emitted == ScriptStatements(codecScript)
    IN /\ emitted.ok
       /\ Len(emitted.sts) = Len(codecMap)
       /\ \A i \in 1..Len(codecMap) :
            /\ emitted.sts[i].kind \in {"raw", "b64"}
            /\ emitted.sts[i].kind = "b64" <=>
                 /\ codecOptions.compress = Bool(TRUE)
                 /\ Len(JSONStringify(codecMap[i][2], "state")) >
                      (IF codecOptions.threshold = Undef THEN 1024
                       ELSE Val(codecOptions.threshold))

\* an entry of 1025 characters compressed under the default threshold
W_C9_DefaultThresholdCompressed ==
  /\ codecPhase = "serialized"
  /\ codecOptions = [compress |-> Bool(TRUE), threshold |-> Undef]
  /\ Len(codecMap) = 1
  /\ Len(JSONStringify(codecMap[1][2], "state")) = 1025
  /\ ScriptStatements(codecScript).sts[1].kind = "b64"

(***************************************************************************)
(* Claims on requests handled concurrently (Spec)                          *)
(***************************************************************************)
\* C1: what the code of one request stores under a key is never returned by a
\* read of that key in another request: every read returns what the request's
\* own code stored last (the initial value if it stored nothing), and a request
\* reads and writes only the state map bound to its own symbol, through
\* instances its own provider calls created
C1_RequestIsolation ==
  \A r \in Reqs :
    /\ lastRead[r].value = lastRead[r].own
    /\ lastRead[r].value \notin lastRead[r].others
    /\ touched[r] \subseteq {storage[r].symbol}
    /\ \A name \in Names : held[r][name].returns = "object" => held[r][name].by = r

\* a request read a key under which another request, still in flight, had
\* stored a value before
W_C1_ReadAfterForeignWrite ==
  \E a, b \in Reqs :
    /\ a # b
    /\ pc[a] = "callback"
    /\ MapHas(shadow[a], lastRead[b].key)
    /\ lastRead[b].others # {}

\* C2: in every continuation of a request, RequestContext.current() returns the
\* context created for that request, whichever request installed the resolver
\* last
C2_CurrentReturnsOwnContext ==
  \A r \in Reqs :
    /\ seen[r].symbol \in {0, storage[r].symbol}
    /\ pc[r] = "callback" => Current(r) = Returned(storage[r])

\* a request got its own context from a resolver another request installed
W_C2_OwnContextAfterReinstall ==
  \E r \in Reqs :
    /\ seen[r].getter \notin {0, r}
    /\ seen[r].symbol = storage[r].symbol
    /\ storage[r].providers # <<>>

\* C10: createState and createRawState called on the server before any resolver
\* is installed, or outside every request scope, throw: no cell comes back
C10_OutsideThrows ==
  /\ outcome.result \in {"none", "threw"}
  /\ createState(Outside, RequestStores, ModuleKey, Num(0)).threw
  /\ createRawState(Outside, RequestStores, ModuleKey, Num(0)).threw

\* createRawState threw at module level while a resolver was installed
W_C10_ThrewWithResolverInstalled ==
  /\ outcome.op = "createRawState"
  /\ outcome.installed
  /\ outcome.result = "threw"

(***************************************************************************)
(* Claims on the providers and cells of one request (SpecStore)            *)
(***************************************************************************)
\* C3 as stated: within one request every call of a provider returns the same
\* reference and the factory runs at most once, whatever it returns
CE_C3_AnyFactoryRunsOnce ==
  \A name \in Names :
    /\ runs[1][name] <= 1
    /\ Cardinality(returned[1][name]) <= 1

\* C3, amended: within one request every call of a provider returns the same
\* reference, and the factory runs at most once when it returns anything other
\* than undefined (null included)
C3_DefinedInstanceCached ==
  \A name \in Names :
    /\ Cardinality(returned[1][name]) <= 1
    /\ FactoryOf(name).returns # "undefined" => runs[1][name] <= 1

\* the presenter that returns null was called twice and nothing else was
W_C3_NullCachedOnSecondCall ==
  /\ steps[1] = 2
  /\ runs[1][NullPresenter] = 1
  /\ runs[1][CounterStore] = 0
  /\ runs[1][NothingPresenter] = 0
  /\ held[1][NullPresenter].returns = "null"

\* how often deriveFn has run for the derived cell of request r
DerivedEvaluations(r) ==
  Len(Flatten(derivedLog[r]))

\* C6: on the server the derived cell evaluates its function once over its
\* life, and later reads return that value even if a source was written since
CE_C6_DerivedEvaluatedOnce ==
  \A r \in Reqs :
    /\ DerivedEvaluations(r) <= 1
    /\ \A k \in 1..Len(derivedLog[r]) : derivedLog[r][k] = derivedLog[r][1]

(***************************************************************************)
(* Claims on JSON responses (SpecHandle)                                   *)
(***************************************************************************)
\* the state map of request r
StateMapOfRequest(r) ==
  IF MapHas(RequestStores, storage[r].symbol)
  THEN MapGet(RequestStores, storage[r].symbol) ELSE <<>>

\* the number of bytes of the UTF-8 encoding of text
Utf8Length(text) ==
  Len(text) + Cardinality({i \in 1..Len(text) : CharCode(text[i]) >= 128})

\* request r answered a JSON content type and has state
AnsweredJsonWithState(r) ==
  /\ pc[r] = "done"
  /\ Includes(replies[r].given.contentType, APPLICATION_JSON)
  /\ Len(StateMapOfRequest(r)) > 0

\* C7: when the response is JSON with an object as body and the request has
\* state, the body sent is that object with the property __edges_state__ added,
\* which maps every state key to the JSON text of its value, and content-length
\* is the byte length of the UTF-8 encoding of the body sent
C7_JsonResponseCarriesState ==
  \A r \in Reqs :
    (/\ AnsweredJsonWithState(r)
     /\ JSONParse(replies[r].given.body).ok
     /\ IsObj(JSONParse(replies[r].given.body).val))
    => /\ JSONParse(replies[r].sent.body).ok
       /\ IsObj(JSONParse(replies[r].sent.body).val)
       /\ HasOwn(JSONParse(replies[r].sent.body).val, EDGES_STATE)
       /\ ObjKeys(JSONParse(replies[r].sent.body).val)
            = ObjKeys(JSONParse(replies[r].given.body).val) \cup {EDGES_STATE}
       /\ ObjKeys(GetProp(JSONParse(replies[r].sent.body).val, EDGES_STATE))
            = MapKeys(StateMapOfRequest(r))
       /\ \A k \in MapKeys(StateMapOfRequest(r)) :
            GetProp(GetProp(JSONParse(replies[r].sent.body).val, EDGES_STATE), k)
              = Str(JSONStringify(MapGet(StateMapOfRequest(r), k), "handle"))
       /\ \A k \in ObjKeys(JSONParse(replies[r].given.body).val) \ {EDGES_STATE} :
            GetProp(JSONParse(replies[r].sent.body).val, k)
              = GetProp(JSONParse(replies[r].given.body).val, k)
       /\ replies[r].sent.contentLength = NumText(Utf8Length(replies[r].sent.body))
       /\ replies[r].sent.status = replies[r].given.status

\* a JSON object was sent with state whose text is longer in bytes than in
\* characters
W_C7_StateWithNonAscii ==
  /\ AnsweredJsonWithState(1)
  /\ IsObj(JSONParse(replies[1].given.body).val)
  /\ HasOwn(JSONParse(replies[1].sent.body).val, EDGES_STATE)
  /\ Utf8Length(replies[1].sent.body) > Len(replies[1].sent.body)

\* C8: when the content type is JSON but the body is not valid JSON, the
\* response sent has the original body, status and headers
C8_MalformedJsonPassesThrough ==
  \A r \in Reqs :
    (/\ pc[r] = "done"
     /\ Includes(replies[r].given.contentType, APPLICATION_JSON)
     /\ ~JSONParse(replies[r].given.body).ok)
    => replies[r].sent = replies[r].given

\* a request with state answered 500 with a malformed JSON body
W_C8_MalformedWithState ==
  /\ AnsweredJsonWithState(1)
  /\ ~JSONParse(replies[1].given.body).ok
  /\ replies[1].given.status = 500
  /\ replies[1].sent.body = replies[1].given.body

\* C11: the value a request's state map holds under a key is a copy of the
\* initializer's result: what a request reads from a cell is the default with
\* the request's own pushes, and the default lists stay as they were defined
CE_C11_StoredValueIsDeepCopy ==
  /\ \A a \in DOMAIN heap : heap[a] = Arr(<<>>)
  /\ \A r \in Reqs : \A i \in 1..Len(held[r][ListStore].cells) :
        Tag(ListCell(r, i).initial) = "ref" =>
          Deref(ListValue(r, i, RequestStores), heap) = Arr(pushed[r][i])

\* the state keys of the cells of an instance
CellKeys(instance) == {instance.cells[i].key : i \in 1..Len(instance.cells)}

\* C14: two providers of different names do not collide in a context: each has
\* its own entry of the context's providers map, a call returns the instance of
\* the factory of that name, and the state keys of the two are disjoint
C14_NamedProvidersApart ==
  \A n \in Names : \A m \in Names \ {n} :
    (held[1][n].returns = "object" /\ held[1][m].returns = "object") =>
      /\ held[1][n].name = n
      /\ Len(held[1][n].cells) = Len(FactoryOf(n).states)
      /\ \A i \in 1..Len(held[1][n].cells) :
            /\ held[1][n].cells[i].kind = FactoryOf(n).states[i].kind
            /\ held[1][n].cells[i].initial = InitialOf(FactoryOf(n).states[i].initial, 1)
      /\ MapHas(storage[1].providers, n)
      /\ MapGet(storage[1].providers, n) = held[1][n]
      /\ held[1][n] # held[1][m]
      /\ CellKeys(held[1][n]) \cap CellKeys(held[1][m]) = {}
      /\ \A k \in CellKeys(held[1][n]) : MapHas(StateMapOfRequest(1), k)
           \/ \E i \in 1..Len(held[1][n].cells) :
                 held[1][n].cells[i].key = k /\ held[1][n].cells[i].kind = "rawstate"

\* both stores have been called in one request, which then took another step
W_C14_BothStoresCalled ==
  /\ held[1][CounterStore].returns = "object"
  /\ held[1][ListStore].returns = "object"
  /\ steps[1] >= 3

\* C15: a provider called in two requests runs its factory once in each and
\* gives each request its own instance: no call returns an instance made
\* during another request
C15_InstancePerRequest ==
  \A r \in Reqs :
    /\ runs[r][CounterStore] <= 1
    /\ returned[r][CounterStore] # {} => runs[r][CounterStore] = 1
    /\ \A instance \in returned[r][CounterStore] : instance.by = r
    /\ \A q \in Reqs \ {r} :
          returned[r][CounterStore] \cap returned[q][CounterStore] = {}

\* both requests have called the store, request 1 has taken a second step
W_C15_BothRequestsCalled ==
  /\ returned[1][CounterStore] # {}
  /\ returned[2][CounterStore] # {}
  /\ steps[1] >= 2

\* C16: with silentChromeDevtools true and the path of the DevTools probe,
\* edgesHandle answers 204 with an empty body and never invokes callback; in
\* every other case callback is invoked exactly once, in the request's context
C16_DevtoolsProbeShortCircuits ==
  \A r \in Reqs :
    pc[r] # "idle" =>
      IF entered[r].silent /\ entered[r].pathname = DEVTOOLS_PATH
      THEN /\ pc[r] = "done"
           /\ replies[r].sent.status = 204
           /\ replies[r].sent.body = <<>>
           /\ entered[r].calls = 0
           /\ steps[r] = 0
      ELSE /\ entered[r].calls = 1
           /\ entered[r].symbol # 0
           /\ entered[r].symbol = storage[r].symbol

\* the probe was answered under the flag
W_C16_ProbeAnswered ==
  /\ entered[1].silent
  /\ entered[1].pathname = DEVTOOLS_PATH
  /\ pc[1] = "done"

\* value without its property key
WithoutProp(value, key) ==
  IF IsObj(value)
  THEN Obj(SelectSeq(Val(value), LAMBDA member : member[1] # key))
  ELSE value

\* C20: when the body of a JSON response parses and the request has state,
\* the body sent, with __edges_state__ taken out, is the body callback returned
CE_C20_PayloadKept ==
  \A r \in Reqs :
    (AnsweredJsonWithState(r) /\ JSONParse(replies[r].given.body).ok) =>
      /\ JSONParse(replies[r].sent.body).ok
      /\ WithoutProp(JSONParse(replies[r].sent.body).val, EDGES_STATE)
           = JSONParse(replies[r].given.body).val

\* name contains pattern: some stretch of name is pattern
Contains(name, pattern) ==
  \E i \in 0..Len(name) : \E j \in i..Len(name) : SubSeq(name, i + 1, j) = pattern

\* the entries clearCache(pattern) is to remove
Cleared(name, pattern) == pattern = Undef \/ Contains(name, Val(pattern))

\* C17: in the browser an entry of the provider cache stays as it is through
\* provider calls; clearCache(p) removes the entries whose name contains p and
\* no other, clearCache() removes them all; on the server clearCache changes
\* neither the cache nor the providers of the request
C17_CacheClearedOnlyByClearCache ==
  [][/\ lastClear' = lastClear =>
          \A n \in MapKeys(globalClientCache) :
            /\ MapHas(globalClientCache', n)
            /\ MapGet(globalClientCache', n) = MapGet(globalClientCache, n)
     /\ (lastClear' # lastClear /\ lastClear'.browser) =>
          /\ MapKeys(globalClientCache')
               = {n \in MapKeys(globalClientCache) : ~Cleared(n, lastClear'.pattern)}
          /\ \A n \in MapKeys(globalClientCache') :
                MapGet(globalClientCache', n) = MapGet(globalClientCache, n)
     /\ (lastClear' # lastClear /\ ~lastClear'.browser) =>
          /\ globalClientCache' = globalClientCache
          /\ storage' = storage]_vars

\* clearCache("n") has removed some entries of the page's cache and left one
W_C17_PatternClearedSome ==
  /\ lastClear.browser
  /\ lastClear.pattern = Str(<<"n">>)
  /\ MapHas(globalClientCache, ListStore)
  /\ clientRuns[CounterStore] > 0
  /\ ~MapHas(globalClientCache, CounterStore)

\* the call is not one of the framework's: no marker, no action header, no
\* __data.json in the URL
NotFramework(call) ==
  /\ ~(call.init.given /\ call.init.marker)
  /\ \A h \in {call.init.headers, call.input.headers} :
        \A i \in 1..Len(h.entries) : h.entries[i][1] # SVELTEKIT_ACTION
  /\ ~Contains(call.input.url, DATA_JSON)

\* C12: a call of the patched fetch that is not one of the framework's, with
\* any shape of input and with or without init, resolves to the response of
\* the original fetch, with nothing of it patched
CE_C12_OtherFetchPassesThrough ==
  (fetched.count > 0 /\ NotFramework(fetched.call)) =>
    /\ ~fetched.call.threw
    /\ ~fetched.call.patchedText
    /\ ~fetched.call.patchedReader

\* the entries of the payload of a body whose text is not JSON
BadEntries(text) ==
  IF JSONParse(text).ok /\ IsObj(JSONParse(text).val)
     /\ HasOwn(JSONParse(text).val, EDGES_STATE)
     /\ IsObj(GetProp(JSONParse(text).val, EDGES_STATE))
  THEN {k \in ObjKeys(GetProp(JSONParse(text).val, EDGES_STATE)) :
          /\ Tag(GetProp(GetProp(JSONParse(text).val, EDGES_STATE), k)) = "str"
          /\ ~JSONParse(Val(GetProp(GetProp(JSONParse(text).val, EDGES_STATE), k))).ok}
  ELSE {}

\* the body names the side channel and does not parse
BadObject(text) == Contains(text, EDGES_STATE) /\ ~JSONParse(text).ok

\* C13 as stated: a response whose payload does not parse, or has an entry
\* whose text is not JSON, changes no entry of the table and no cell
CE_C13_MalformedPayloadIgnored ==
  [][(fetched'.reads # fetched.reads
      /\ (BadObject(fetched.call.original.text)
          \/ BadEntries(fetched.call.original.text) # {}))
     => (windowState' = windowState /\ cellValue' = cellValue)]_vars

\* C13: a body that does not parse changes no entry of the table and no cell;
\* an entry whose text is not JSON is stored as that text, in the table and in
\* the cell registered under its key
C13_MalformedObjectIgnoredEntryKeptAsText ==
  [][fetched'.reads # fetched.reads =>
       /\ BadObject(fetched.call.original.text) =>
            (windowState' = windowState /\ cellValue' = cellValue)
       /\ fetched.call.patchedText =>
            \A k \in BadEntries(fetched.call.original.text) :
              /\ windowState'.def
              /\ MapHas(windowState'.map, k)
              /\ MapGet(windowState'.map, k)
                   = GetProp(GetProp(JSONParse(fetched.call.original.text).val,
                                     EDGES_STATE), k)
              /\ MapHas(stateUpdateCallbacks, k) =>
                   MapGet(cellValue', k) = MapGet(windowState'.map, k)]_vars

\* the text of an entry that is not JSON has become the value of its cell
W_C13_TextStoredInCell ==
  /\ fetched.read
  /\ fetched.call.patchedText
  /\ BadEntries(fetched.call.original.text) # {}
  /\ \E k \in BadEntries(fetched.call.original.text) :
        MapHas(cellValue, k) /\ MapGet(cellValue, k) = Str(<<"{", "o">>)

\* the body whose bytes the reader hands out
ReaderText == TextDecode(reader.body)

\* the body carries the field with an object as value
CarriesField(text) ==
  /\ JSONParse(text).ok
  /\ IsObj(JSONParse(text).val)
  /\ HasOwn(JSONParse(text).val, EDGES_STATE)
  /\ IsObj(GetProp(JSONParse(text).val, EDGES_STATE))

\* C18: when a body that carries the field has been read to its end, in
\* whatever chunks it came, processEdgesState has been called once, with the
\* object of the field
CE_C18_FieldExtractedOnceForEverySplit ==
  (reader.open /\ reader.done /\ CarriesField(ReaderText)) =>
    processed = <<GetProp(JSONParse(ReaderText).val, EDGES_STATE)>>

\* C19: the patched read returns what the original read gave, result by
\* result, whether the field is absent, found, or its slice does not parse
C19_ReadPassesResultsThrough ==
  /\ reader.results = reader.originals
  /\ reader.done =>
       Flatten([i \in 1..Len(reader.results) |-> reader.results[i].value]) = reader.body

\* a body with the field came in three chunks, and the field was found before
\* the last
W_C19_ReadOnAfterFound ==
  /\ reader.done
  /\ reader.found
  /\ Len(reader.results) = 4
  /\ Len(processed) = 1


\* the instances the requests hold and the page's cache holds
StoreInstances ==
  {held[r][name] : r \in Reqs, name \in Names}
    \cup {globalClientCache[i][2] : i \in 1..Len(globalClientCache)}

\* the keys of the cells of an instance, in the order the factory made them
KeySeq(instance) == [i \in 1..Len(instance.cells) |-> instance.cells[i].key]

\* C21: in a run of the factory of the store named N the i-th call of
\* createState or createRawState, counted from 0 over both, gets the key
\* N::state::i or N::rawstate::i; the keys of one run are pairwise distinct, and
\* the runs of one factory, in two requests or in the page, get the same keys
\* in the same order whatever initial values were passed
C21_KeysByCallOrder ==
  \A a \in StoreInstances : a.returns = "object" =>
    /\ Len(a.cells) = Len(FactoryOf(a.name).states)
    /\ \A i \in 1..Len(a.cells) :
          a.cells[i].key =
            a.name \o <<":", ":">>
              \o (IF FactoryOf(a.name).states[i].kind = "state" THEN KIND_STATE
                  ELSE KIND_RAWSTATE)
              \o <<":", ":">> \o <<DigitChars[i]>>
    /\ \A i, j \in 1..Len(a.cells) : i # j => a.cells[i].key # a.cells[j].key
    /\ \A b \in StoreInstances : b.name = a.name => KeySeq(b) = KeySeq(a)

\* the list store has run in two requests and twice in the page, and its third
\* cell was given another initial value in each
W_C21_RunsWithOtherInitials ==
  /\ \A r \in Reqs : held[r][ListStore].returns = "object"
  /\ held[1][ListStore].cells[3].initial # held[2][ListStore].cells[3].initial
  /\ clientRuns[ListStore] = 2
  /\ MapHas(globalClientCache, ListStore)
  /\ MapGet(globalClientCache, ListStore).cells[3].initial
       # held[1][ListStore].cells[3].initial


\* what a read of cell returns now: subscribe's argument for a subscribable
\* cell, the value getter's result for a raw cell
ReadNow(cell) ==
  IF cell.kind = "state" THEN StateSubscribe(cell, RequestStores)
  ELSE RawGet(cell, RequestStores)

\* C22: within a request on the server a read of a key returns the value of
\* the most recent set, update or value assignment the request's code made to
\* that key, or the initializer's value when it made none; update stores the
\* updater applied to the value current at that moment
C22_ReadsFollowProgramOrder ==
  \A r \in Reqs : \A i \in 1..Len(held[r][CounterStore].cells) :
    /\ ReadNow(HeldCell(r, i)) = ShadowGet(r, HeldCell(r, i))
    /\ ~MapHas(shadow[r], HeldCell(r, i).key) =>
          ReadNow(HeldCell(r, i)) = FactoryOf(CounterStore).states[i].initial
    /\ lastRead[r].value = lastRead[r].own

\* a request has set a cell, updated it and read the updater's result
W_C22_ReadAfterSetAndUpdate ==
  \E r \in Reqs :
    /\ held[r][CounterStore].returns = "object"
    /\ lastRead[r].key = HeldCell(r, 1).key
    /\ lastRead[r].value = Updater(r, SetValue(r))


\* C23: on the server subscribe calls the function it is given exactly once,
\* at once, with the value the cell has then; the unsubscribe it returns
\* changes nothing, and no later set or update of the cell calls the function
\* again
C23_SubscribeCallsOnce ==
  \A r \in Reqs : subscriber[r].key # <<>> =>
    /\ Len(subscriber[r].calls) = 1
    /\ lastRead[r].key = subscriber[r].key
    /\ subscriber[r].calls[1] = lastRead[r].value
    /\ subscriber[r].calls[1] = lastRead[r].own

\* as the load function of the test page does: subscribe, unsubscribe, then an
\* update that changes the value of the cell
W_C23_UpdatedAfterUnsubscribe ==
  /\ subscriber[1].key # <<>>
  /\ subscriber[1].unsubscribed = 1
  /\ MapHas(shadow[1], subscriber[1].key)
  /\ MapGet(shadow[1], subscriber[1].key) # subscriber[1].calls[1]
  /\ MapGet(StateMapOfRequest(1), subscriber[1].key) = MapGet(shadow[1], subscriber[1].key)


\* C24: one subscribe to a derived cell on the server calls the combining
\* function exactly once, when every position has received a value, position i
\* holding a value source i passed, also when a source passes more than one
\* value before another source has passed its first
CE_C24_CombinedWhenAllPositionsFilled ==
  derivation.emits # <<>> =>
    /\ Len(derivation.delivered) = 1
    /\ \A i \in 1..Len(derivation.emits) :
          \E j \in 1..Len(derivation.emits[i]) :
            Val(derivation.delivered[1])[i] = derivation.emits[i][j]


\* the value the cell of the i-th state of the counter's factory starts with
\* when the table is table
StartOf(i, table) ==
  IF table.def /\ MapHas(table.map, CounterKey(i))
  THEN MapGet(table.map, CounterKey(i))
  ELSE InitialOf(FactoryOf(CounterStore).states[i].initial, Browser)

\* C25: in the browser a cell created for a key starts with the value the
\* rehydration table holds under the key whenever the key is present there,
\* whatever that value is, and with the initializer's value when the key is
\* absent or there is no table
C25_CellStartsFromTable ==
  [][clientRuns'[CounterStore] # clientRuns[CounterStore] =>
       \A i \in 1..Len(FactoryOf(CounterStore).states) :
         /\ MapHas(cellValue', CounterKey(i))
         /\ MapGet(cellValue', CounterKey(i)) = StartOf(i, windowState)]_vars

\* the factory has run on a page whose table holds undefined under the first
\* key and nothing under the second: the first cell holds undefined, the
\* second its initial value
W_C25_StartsFromUndefined ==
  /\ clientRuns[CounterStore] = 1
  /\ pageWrites = 0
  /\ windowState.def
  /\ MapHas(windowState.map, CounterKey(1))
  /\ MapGet(windowState.map, CounterKey(1)) = Undef
  /\ MapGet(cellValue, CounterKey(1)) = Undef
  /\ ~MapHas(windowState.map, CounterKey(2))
  /\ MapGet(cellValue, CounterKey(2)) = Num(1)


\* C26: in the browser, once the cell of a key has been set, updated or
\* assigned, the rehydration table holds the cell's current value under the
\* key, so that a cell made later for the key starts from the latest value
C26_TableFollowsWrites ==
  \A key \in written :
    /\ windowState.def
    /\ MapHas(windowState.map, key)
    /\ MapHas(cellValue, key)
    /\ MapGet(windowState.map, key) = MapGet(cellValue, key)

\* the raw cell was assigned 6, the cache was cleared and the factory ran again:
\* the cell it made for the key replaced the one that held 6 and holds 6
W_C26_LaterCellStartsFromWrite ==
  /\ clientRuns[CounterStore] = 2
  /\ CounterKey(3) \in written
  /\ \E j \in 1..Len(replacedCells) :
        replacedCells[j] = [key |-> CounterKey(3), value |-> Num(6)]
  /\ MapGet(cellValue, CounterKey(3)) = Num(6)
  /\ MapGet(windowState.map, CounterKey(3)) = Num(6)


\* the payload the step delivers
DeliveredNow == Val(Spread(processed'[Len(processed')]))

\* C27: after processEdgesState has delivered a value for a key, the table
\* holds the decoded value under the key and every cell that registered for
\* the key holds it, also when more than one cell registered for the key
CE_C27_EveryRegisteredCellUpdated ==
  [][processed' # processed =>
       \A i \in 1..Len(DeliveredNow) :
         /\ windowState'.def
         /\ MapGet(windowState'.map, DeliveredNow[i][1]) = ProcessedValue(DeliveredNow[i][2])
         /\ MapHas(stateUpdateCallbacks, DeliveredNow[i][1]) =>
               MapGet(cellValue', DeliveredNow[i][1]) = ProcessedValue(DeliveredNow[i][2])
         /\ \A j \in 1..Len(replacedCells) :
               replacedCells[j].key = DeliveredNow[i][1] =>
                 replacedCells'[j].value = ProcessedValue(DeliveredNow[i][2])]_vars

\* the same for the cells that registered last for their key
LastRegisteredCellUpdated ==
  [][processed' # processed =>
       \A i \in 1..Len(DeliveredNow) :
         /\ windowState'.def
         /\ MapGet(windowState'.map, DeliveredNow[i][1]) = ProcessedValue(DeliveredNow[i][2])
         /\ MapHas(stateUpdateCallbacks, DeliveredNow[i][1]) =>
               MapGet(cellValue', DeliveredNow[i][1]) = ProcessedValue(DeliveredNow[i][2])]_vars


\* C28: within one key cache generate returns the same key every time it is
\* given the same factory, and different keys for different factories, also
\* when their identifiers are equal or have the same hash
C28_KeysDistinctPerCache ==
  \A a \in keyLog : \A b \in keyLog :
    a.cache = b.cache => (a.factory = b.factory <=> a.key = b.key)

\* in the scope of a request the function called Aa got store_1mo, twice, the
\* function displayed as Aa store_1mo_1 and the one whose key has the same hash
\* store_1mo_2
W_C28_EqualIdentifiersInOneCache ==
  \E c \in {a.cache : a \in keyLog} :
    /\ c > 0
    /\ \E a \in keyLog : a.cache = c /\ a.factory = 1 /\ a.made
                           /\ a.key = <<"s", "t", "o", "r", "e", "_", "1", "m", "o">>
    /\ \E a \in keyLog : a.cache = c /\ a.factory = 1 /\ ~a.made
    /\ \E a \in keyLog : a.cache = c /\ a.factory = 2
                           /\ a.key = <<"s", "t", "o", "r", "e", "_", "1", "m", "o", "_", "1">>
    /\ \E a \in keyLog : a.cache = c /\ a.factory = 3
                           /\ a.key = <<"s", "t", "o", "r", "e", "_", "1", "m", "o", "_", "2">>


\* two different factories of one process have landed on the same computed key
Collided(a, b) ==
  a.process = b.process /\ a.factory # b.factory /\ a.base = b.base

\* C29: in a development build a collision warning is written when two
\* different factories land on the same computed key, and none is written for
\* a factory that no other factory collides with, however often it is
\* registered and looked up
CE_C29_WarnsOnCollisionsOnly ==
  dev =>
    /\ (\E a \in keyLog : \E b \in keyLog : Collided(a, b)) => warnings # <<>>
    /\ \A i \in 1..Len(warnings) :
          \E a \in keyLog : \E b \in keyLog :
            a.factory = warnings[i].factory /\ Collided(a, b)

\* without a development build nothing is written
SilentInProduction == ~dev => warnings = <<>>


\* where the closing body tag of the page is, 0 when it has none
BodyEnd(html) == IndexOf(Val(html), BODY_CLOSE, 1)

\* the state holds no dollar sign
WithoutDollar(map) ==
  \A i \in 1..Len(map) :
    Tag(map[i][2]) = "str" => \A j \in 1..Len(Val(map[i][2])) : Val(map[i][2])[j] # "$"

\* C30: serialize(html) returns html with the script block of the state put in
\* immediately before the closing body tag and nothing else changed; html
\* unchanged when the state map is empty or html has no closing body tag; the
\* empty string for an empty or missing html
CE_C30_ScriptBeforeBodyEnd ==
  document.called =>
    IF document.html \in {Undef, Null, Str(<<>>)} THEN document.out = <<>>
    ELSE IF document.state = <<>> \/ BodyEnd(document.html) = 0
    THEN document.out = Val(document.html)
    ELSE document.out
           = SubSeq(Val(document.html), 1, BodyEnd(document.html) - 1)
               \o stateSerialize(document.state, codecOptions)
               \o SubSeq(Val(document.html), BodyEnd(document.html),
                         Len(Val(document.html)))

\* the same for a state without a dollar sign
ScriptBeforeBodyEndWithoutDollar ==
  (document.called /\ WithoutDollar(document.state)) =>
    IF document.html \in {Undef, Null, Str(<<>>)} THEN document.out = <<>>
    ELSE IF document.state = <<>> \/ BodyEnd(document.html) = 0
    THEN document.out = Val(document.html)
    ELSE document.out
           = SubSeq(Val(document.html), 1, BodyEnd(document.html) - 1)
               \o stateSerialize(document.state, codecOptions)
               \o SubSeq(Val(document.html), BodyEnd(document.html),
                         Len(Val(document.html)))


\* C31: edgesHandle returns the response of the callback as it is, body and
\* headers included, whenever its content type is not JSON or the state map of
\* the request is empty or missing; the response is changed only when the
\* content type is JSON and the state map has an entry
C31_UntouchedWithoutJsonOrState ==
  \A r \in Reqs :
    (pc[r] = "done" /\ replies[r].given # NoResponse) =>
      /\ (~Includes(replies[r].given.contentType, APPLICATION_JSON)
             \/ Len(StateMapOfRequest(r)) = 0)
           => replies[r].sent = replies[r].given
      /\ replies[r].sent # replies[r].given
           => (Includes(replies[r].given.contentType, APPLICATION_JSON)
                 /\ Len(StateMapOfRequest(r)) > 0)

\* the request made no cell and answered a JSON object with a content-length:
\* the object was sent without the field, under the same headers
W_C31_JsonWithoutState ==
  /\ pc[1] = "done"
  /\ Len(StateMapOfRequest(1)) = 0
  /\ replies[1].sent.contentLength = NumText(11)
  /\ replies[1].given.contentType = JSON_UTF8
  /\ replies[1].sent = replies[1].given


\* the characters that end or escape a literal in single quotes
HasQuoteOrBackslash(text) == \E j \in 1..Len(text) : text[j] \in {SQ, BS}

\* text holds a closing script tag
HasScriptEnd(text) == Includes(text, <<"<", "/", "s", "c", "r", "i", "p", "t">>)

\* every entry of the map was emitted as a literal
AllRaw == \A i \in 1..Len(codecMap) :
            ~ShouldCompressEntry(JSONStringify(codecMap[i][2], "state"), codecOptions)

\* the table holds under the key of the i-th entry what its JSON text decodes to
StoredAsEncoded(i) ==
  /\ codecWindow.def
  /\ MapHas(codecWindow.map, codecMap[i][1])
  /\ MapGet(codecWindow.map, codecMap[i][1])
        = JSONParseRevived(JSONStringify(codecMap[i][2], "state")).val

\* C32: for every entry emitted as a literal, also when its key or its value
\* holds single quotes or backslashes, running the emitted script stores under
\* exactly that key the value the entry's JSON text decodes to
CE_C32_LiteralStoresValueUnderKey ==
  (codecPhase = "executed" /\ AllRaw
     /\ \A i \in 1..Len(codecMap) :
           ~HasScriptEnd(JSONStringify(codecMap[i][2], "state")))
    => \A i \in 1..Len(codecMap) : StoredAsEncoded(i)

\* the same when no key holds a single quote or a backslash
LiteralStoresValueUnderPlainKey ==
  (codecPhase = "executed" /\ AllRaw
     /\ \A i \in 1..Len(codecMap) :
           /\ ~HasScriptEnd(JSONStringify(codecMap[i][2], "state"))
           /\ ~HasQuoteOrBackslash(codecMap[i][1]))
    => \A i \in 1..Len(codecMap) : StoredAsEncoded(i)


\* the script element ends with the closing tag stateSerialize wrote, and its
\* text is one statement for each entry of the map and nothing else
SelfContained ==
  /\ ScriptEnd(codecScript) = Len(codecScript)
  /\ ScriptStatements(codecScript).ok
  /\ Len(ScriptStatements(codecScript).sts) = Len(codecMap)

\* C33: the script block stateSerialize emits is one self-contained unit
\* whatever the state holds: no key and no value, such as a string holding
\* </script>, ends the block early or puts text outside the arguments of its
\* statements
CE_C33_BlockSelfContained ==
  (codecPhase # "server" /\ codecScript # <<>>) => SelfContained

\* the same for plain keys and values without a closing script tag
BlockSelfContainedWithoutTagOrQuote ==
  (codecPhase # "server" /\ codecScript # <<>>
     /\ \A i \in 1..Len(codecMap) :
           /\ ~HasQuoteOrBackslash(codecMap[i][1])
           /\ AllRaw => ~HasScriptEnd(JSONStringify(codecMap[i][2], "state")))
    => SelfContained


\* the same for plain keys alone: a value holding </script> still breaks it
BlockSelfContainedWithPlainKeys ==
  (codecPhase # "server" /\ codecScript # <<>>
     /\ \A i \in 1..Len(codecMap) : ~HasQuoteOrBackslash(codecMap[i][1]))
    => SelfContained


(***************************************************************************)
(* Claims on the writes of a request (SpecLastWrite)                       *)
(***************************************************************************)
\* the property __edges_state__ of the body sent for request r
StateField(r) == GetProp(JSONParse(replies[r].sent.body).val, EDGES_STATE)

\* C34: the property __edges_state__ of an augmented JSON response holds, for
\* every key of the request's state map, the JSON text of the value the
\* request's code stored last under that key before it answered, whatever
\* other requests did between its writes
C34_FieldHoldsLastWrite ==
  \A r \in Reqs :
    AnsweredJsonWithState(r) =>
      \E sent \in {JSONParse(replies[r].sent.body)} :
        /\ sent.ok
        /\ HasOwn(sent.val, EDGES_STATE)
        /\ \E field \in {GetProp(sent.val, EDGES_STATE)} :
              \A i \in 1..Len(held[r][CounterStore].cells) :
                HeldCell(r, i).key \in MapKeys(StateMapOfRequest(r)) =>
                  /\ HasOwn(field, HeldCell(r, i).key)
                  /\ GetProp(field, HeldCell(r, i).key)
                        = Str(JSONStringify(ShadowGet(r, HeldCell(r, i)), "handle"))

\* request 1 answered after storing at least twice under a key, the other
\* request stored another value under the same key, and the field of request 1
\* holds the value request 1 stored last
W_C34_InterleavedWrites ==
  /\ AnsweredJsonWithState(1)
  /\ steps[1] >= 2 /\ steps[2] >= 1
  /\ MapHas(shadow[1], HeldCell(1, 1).key)
  /\ MapHas(shadow[2], HeldCell(1, 1).key)
  /\ MapGet(shadow[1], HeldCell(1, 1).key) # MapGet(shadow[2], HeldCell(1, 1).key)
  /\ MapGet(shadow[1], HeldCell(1, 1).key) = Str(<<"a">>)
  /\ MapKeys(shadow[1]) = {HeldCell(1, 1).key}
  /\ GetProp(StateField(1), HeldCell(1, 1).key) = Str(<<DQ, "a", DQ>>)


(***************************************************************************)
(* Claims on batched updates (SpecBatch, SpecBatchFair)                    *)
(***************************************************************************)
\* the calls of queueUpdate for key that were queued before flush number flush
QueuedFor(flush, key) ==
  {i \in 1..Len(queuedLog) :
     /\ ~queuedLog[i].immediate
     /\ queuedLog[i].phase = flush - 1
     /\ queuedLog[i].key = key}

\* the calls of update callbacks flush number flush made for key
AppliedBy(flush, key) ==
  {j \in 1..Len(applied) : applied[j].flush = flush /\ applied[j].key = key}

LastOf(indexes) == CHOOSE i \in indexes : \A j \in indexes : j <= i

\* the key has an update in the queue
IsPending(key) == MapHas(pendingUpdates, key)

\* in a page, a call of queueUpdate made while a function passed to batch is
\* running calls no callback, and flushes call callbacks only when none is
\* running
AppliedAfterReturn ==
  /\ \A i \in 1..Len(queuedLog) :
        (browser /\ queuedLog[i].depth > 0) => ~queuedLog[i].immediate
  /\ Cardinality({j \in 1..Len(applied) : applied[j].flush = 0})
       = Cardinality({i \in 1..Len(queuedLog) :
                        queuedLog[i].immediate /\ queuedLog[i].callback # NoCallback})
  /\ running # <<>> => \A j \in 1..Len(applied) : applied[j].flush <= flushes

\* a flush calls, for every key queued since the flush before, the callback
\* queued last for the key, once, with the value queued last, and no other
FlushAppliesLast ==
  \A flush \in 1..flushes : \A key \in BatchKeys :
    IF QueuedFor(flush, key) = {} \/ queuedLog[LastOf(QueuedFor(flush, key))].callback = NoCallback
    THEN AppliedBy(flush, key) = {}
    ELSE /\ Cardinality(AppliedBy(flush, key)) = 1
         /\ \A j \in AppliedBy(flush, key) :
               /\ applied[j].value = queuedLog[LastOf(QueuedFor(flush, key))].value
               /\ applied[j].callback = queuedLog[LastOf(QueuedFor(flush, key))].callback

\* once the flush has run the queue is empty and scheduled is false
FlushedClean ==
  (browser /\ running = <<>> /\ microtasks = 0) => (pendingUpdates = <<>> /\ ~scheduled)

QueueUpdateCalled == Len(queuedLog') = Len(queuedLog) + 1

\* the call of queueUpdate of this step called its callback, if it has one, with
\* the value it was given, and left the queue as it was
AppliedAtOnce ==
  /\ pendingUpdates' = pendingUpdates
  /\ applied' = IF queuedLog'[Len(queuedLog')].callback = NoCallback THEN applied
                ELSE Append(applied, [key |-> queuedLog'[Len(queuedLog')].key,
                                      value |-> queuedLog'[Len(queuedLog')].value,
                                      callback |-> queuedLog'[Len(queuedLog')].callback,
                                      flush |-> 0])

\* on the server no step schedules or queues anything, and batch calls fn
ServerSchedulesNothing ==
  ~browser =>
    /\ scheduled' = FALSE /\ microtasks' = 0 /\ pendingUpdates' = <<>>
    /\ begun' = begun + 1 => running' = Append(running, "server")

\* C36 as stated: queueUpdate called while no function passed to batch is
\* running, or on the server, calls its callback at once with the value given
\* and leaves the queue unchanged; batch(fn) on the server runs fn and schedules
\* nothing
CE_C36_AtOnceOutsideBatch ==
  [][/\ (QueueUpdateCalled /\ (~browser \/ running = <<>>)) => AppliedAtOnce
     /\ ServerSchedulesNothing]_vars

\* C36: queueUpdate called while scheduled is false, or on the server, calls
\* its callback at once with the value given and leaves the queue unchanged;
\* batch(fn) on the server runs fn and schedules nothing
C36_AtOnceWhenNotScheduled ==
  [][/\ (QueueUpdateCalled /\ (~browser \/ ~scheduled)) => AppliedAtOnce
     /\ ServerSchedulesNothing]_vars

\* in a page, after a batch has been flushed, queueUpdate was called outside
\* every batch with scheduled false, and its callback has been called
W_C36_AtOnceAfterFlush ==
  /\ browser /\ flushes = 1 /\ ~scheduled /\ running = <<>>
  /\ Len(queuedLog) = 2
  /\ queuedLog[2].immediate /\ queuedLog[2].depth = 0 /\ queuedLog[2].phase = 1
  /\ queuedLog[2].callback # NoCallback
  /\ Len(applied) = 2
  /\ applied[2] = [key |-> queuedLog[2].key, value |-> queuedLog[2].value,
                   callback |-> queuedLog[2].callback, flush |-> 0]
  /\ pendingUpdates = <<>>

\* on the server a function passed to batch has queued an update, which was
\* applied at once
ServerBatchRan ==
  /\ ~browser /\ begun = 1 /\ running = <<"server">>
  /\ Len(queuedLog) = 1 /\ queuedLog[1].depth = 1 /\ Len(applied) = 1


\* the call of batch that set scheduled as the n-th has returned, and the flush
\* it asked for, if any, has run
BatchCompleted(n) == n <= Len(finished) /\ finished[n].flush <= flushes

\* the calls of callback made when the n-th batch had returned and no later one
NotifiedAt(callback, n) ==
  {j \in 1..Len(completed) : completed[j].callback = callback /\ completed[j].ended = n}

\* C37: a callback registered with onBatchComplete while a batch is running is
\* called exactly once when that batch completes, also when the batch queued
\* no update
CE_C37_NotifiedWhenBatchCompletes ==
  \A i \in 1..Len(registered) :
    (registered[i].batch > 0 /\ BatchCompleted(registered[i].batch)) =>
      Cardinality(NotifiedAt(registered[i].callback, registered[i].batch)) = 1

\* what flush does: a callback registered is called once by the next flush
\* that runs, after the callbacks of that flush's updates, and by no other
NotifiedByNextFlush ==
  /\ \A i \in 1..Len(registered) :
        registered[i].phase < flushes =>
          Cardinality({j \in 1..Len(completed) :
                         /\ completed[j].callback = registered[i].callback
                         /\ completed[j].flush = registered[i].phase + 1}) = 1
  /\ \A j \in 1..Len(completed) :
        /\ \E i \in 1..Len(registered) :
              /\ registered[i].callback = completed[j].callback
              /\ registered[i].phase = completed[j].flush - 1
        /\ \A k \in 1..Len(applied) :
              applied[k].flush = completed[j].flush => k <= completed[j].applied

\* the same as C37 for the batches that queued an update
NotifiedWhenFlushedBatchCompletes ==
  \A i \in 1..Len(registered) :
    (/\ registered[i].batch > 0 /\ BatchCompleted(registered[i].batch)
     /\ finished[registered[i].batch].flush > 0) =>
      Cardinality(NotifiedAt(registered[i].callback, registered[i].batch)) = 1


(***************************************************************************)
(* Claims on what processEdgesState leaves alone (SpecFrame)               *)
(***************************************************************************)
\* the keys of the payload the step delivers
DeliveredKeys == {DeliveredNow[i][1] : i \in 1..Len(DeliveredNow)}

\* the entry of key in map m is the same after the step
SameEntry(m, n, key) ==
  /\ MapHas(m, key) = MapHas(n, key)
  /\ MapHas(m, key) => MapGet(m, key) = MapGet(n, key)

\* C38: processEdgesState changes only the table entries of the keys of the
\* payload and the cells registered for them: every other entry of the table,
\* every other cell, the registrations and the provider cache stay as they were
C38_OnlyDeliveredKeysChange ==
  [][processed' # processed =>
       /\ \A key \in (MapKeys(windowState.map) \cup MapKeys(windowState'.map)
                        \cup MapKeys(cellValue) \cup MapKeys(cellValue')) :
             /\ key \notin DeliveredKeys =>
                   /\ SameEntry(windowState.map, windowState'.map, key)
                   /\ SameEntry(cellValue, cellValue', key)
             /\ ~MapHas(stateUpdateCallbacks, key) => SameEntry(cellValue, cellValue', key)
       /\ stateUpdateCallbacks' = stateUpdateCallbacks
       /\ globalClientCache' = globalClientCache
       /\ replacedCells' = replacedCells]_vars

\* the page set the second cell to 5, and a payload with the first key alone
\* arrived: the first cell and its table entry hold 8, the second 5, the third
\* its rehydrated value
W_C38_OneKeyDelivered ==
  /\ Len(processed) = 1
  /\ MapKeys(Val(Spread(processed[1]))) = {CounterKey(1)}
  /\ MapGet(cellValue, CounterKey(1)) = Num(8)
  /\ MapGet(windowState.map, CounterKey(1)) = Num(8)
  /\ MapGet(cellValue, CounterKey(2)) = Num(5)
  /\ MapGet(windowState.map, CounterKey(2)) = Num(5)
  /\ MapGet(cellValue, CounterKey(3)) = Num(7)
  /\ MapGet(windowState.map, CounterKey(3)) = Num(7)


(***************************************************************************)
(* Claims on providers called at module level (SpecOutside)                *)
(***************************************************************************)
\* the last call at module level was a provider call: it ran the factory, also
\* when a request had the provider's instance cached, and put the result into
\* no context
OutsideCallRanFactory ==
  outcome.op = "provider" =>
    /\ outcome.ran
    /\ outcome.into = 0
    /\ outcome.result = "object" => outcome.instance.by = Outside

\* what the requests have cached and have been handed was made in their scope
RequestsHoldTheirOwn ==
  \A r \in Reqs :
    /\ \A i \in 1..Len(storage[r].providers) :
          storage[r].providers[i][2].returns = "object" =>
            storage[r].providers[i][2].by = r
    /\ \A name \in Names : \A instance \in returned[r][name] :
          instance.returns = "object" => instance.by = r

\* this step is a step of the code at module level
OutsideStep == pc' = pc /\ steps' = steps

\* C39: on the server a provider called in no request's scope neither reads nor
\* writes the providers map of a request: it runs its factory, the contexts and
\* state maps of the requests stay as they are, and no request is handed what
\* the call made
C39_OutsideProviderUsesNoCache ==
  /\ [](OutsideCallRanFactory /\ RequestsHoldTheirOwn)
  /\ [][OutsideStep => (storage' = storage /\ RequestStores' = RequestStores)]_vars

\* request 1 is in flight and has the null presenter and the counter store
\* cached; the presenter was called at module level and its factory ran
W_C39_OutsideCallBesideCache ==
  /\ pc[1] = "callback"
  /\ MapHas(storage[1].providers, NullPresenter)
  /\ MapHas(storage[1].providers, CounterStore)
  /\ outcome.op = "provider" /\ outcome.name = NullPresenter
  /\ outcome.installed /\ outcome.ran /\ outcome.result = "null"

\* the counter store was called at module level while request 1 had it cached:
\* the factory ran and threw
OutsideStoreThrew ==
  /\ pc[1] = "callback"
  /\ MapHas(storage[1].providers, CounterStore)
  /\ outcome.op = "provider" /\ outcome.name = CounterStore
  /\ outcome.ran /\ outcome.result = "threw"


(***************************************************************************)
(* Claims on serializing more than once (SpecChunks)                       *)
(***************************************************************************)
\* this step of request r is a call of serialize or the end of edgesHandle
SerializingStep(r) ==
  \/ Len(chunks') > Len(chunks) /\ chunks'[Len(chunks')].request = r
  \/ pc[r] = "callback" /\ pc'[r] = "done"

\* two calls of serialize between which the map was not written give blocks
\* that leave the same table in the browser
SameEntriesTwice ==
  \A i \in 1..Len(chunks) : \A j \in 1..Len(chunks) :
    (chunks[i].request = chunks[j].request /\ chunks[i].state = chunks[j].state) =>
      /\ chunks[i].options = chunks[j].options => chunks[i].out = chunks[j].out
      /\ ExecScript(chunks[i].out, NoTable) = ExecScript(chunks[j].out, NoTable)

\* C40: stateSerialize and the addition of __edges_state__ read the state map
\* of the request and leave it as it is, so that serializing twice gives the
\* same entries
C40_SerializingLeavesMap ==
  /\ [][\A r \in Reqs :
          SerializingStep(r) => StateMapOfRequest(r)' = StateMapOfRequest(r)]_vars
  /\ []SameEntriesTwice

\* request 1 stored a value, serialized its state twice, once compressed, and
\* answered JSON: its map still holds the value
W_C40_SerializedTwiceAndAnswered ==
  /\ Len(chunks) = 2
  /\ chunks[1].state = chunks[2].state /\ Len(chunks[1].state) > 0
  /\ chunks[1].options # chunks[2].options /\ chunks[1].out # chunks[2].out
  /\ AnsweredJsonWithState(1)
  /\ HasOwn(JSONParse(replies[1].sent.body).val, EDGES_STATE)
  /\ StateMapOfRequest(1) = chunks[2].state

====
